---- MODULE Spec2Model ----
(***************************************************************************)
(* jasper v1: the TrainingData pipeline (data.go), the Matrix algebra      *)
(* (matrix.go) and the Network's feedForward / backPropagate / Train /     *)
(* Predict (network.go), as a state machine.                               *)
(*                                                                         *)
(* Numbers.  The cells of a Matrix and the components of the input and     *)
(* output vectors are float64 in the code; the model draws them from the   *)
(* integers and configures the integer-preserving activations (Relu,       *)
(* Linear) and an integer learning rate, so every matrix cell stays an     *)
(* integer and is computed exactly.  The error statistics of Train (a sum  *)
(* divided by a count) are float64 quotients: they are modelled as reduced *)
(* fractions with the IEEE results of a division by zero (NaN, +Inf,       *)
(* -Inf).  The random source of New (rand.Float64, a value in [0,1)) is    *)
(* drawn from 0..MaxRand, in the same integer units.  The cells softMax     *)
(* computes are quotients of exponentials and are kept as exact pairs;     *)
(* Networks with SoftMax enabled are only fed forward, never trained.      *)
(*                                                                         *)
(* Pointers.  A *DataRow is the 1-based index of the row in td.Data (0 is  *)
(* nil); a nil *Matrix is NilMatrix.                                       *)
(*                                                                         *)
(* Widths.  The dimensions of a Matrix are uint32: the products cols*rows  *)
(* and row*cols+col are taken modulo 2^32 (MulU32, AddU32), on 16-bit      *)
(* halves so that no intermediate value leaves 32-bit signed integers.    *)
(*                                                                         *)
(* Panics.  An index past the end of a slice and a call through a nil      *)
(* pointer or interface abort the Go process; the operation's outcome is   *)
(* then "panic".                                                           *)
(*                                                                         *)
(* JSON.  A document is what encoding/json decodes: ok says whether it     *)
(* decodes at all into the target struct (syntax and types), fields holds  *)
(* the keys present; a key that is absent leaves the zero value.           *)
(***************************************************************************)
EXTENDS Integers, Sequences, FiniteSets, TLC

VARIABLES
    n,                      \* the Network (receiver of Train / Predict)
    td,                     \* the TrainingData
    pc,                     \* position of the running Train call ("idle": none)
    i,                      \* Train: the epoch loop index
    row,                    \* Train: the row NextRow returned
    errSum,                 \* Train: errSum
    errorWithinTolerence,   \* Train: errorWithinTolerence
    testCount,              \* Train: testCount
    ret,                    \* Train: the returned (float64, error)
    returned,               \* history: what NextRow returned since the last Prepare
    log,                    \* history: the calls Train has made
    last,                   \* history: the last call of an operation, with the state before it
    errs,                   \* history: the per-row errors of the running / last evaluation
    n0,                     \* history: the Network as it was when Train was called
    trains,                 \* history: number of Train calls made
    calc,                   \* history: the arguments of Train's last call of the error function
    doc,                    \* the document the last MarshalJSON call returned, and its receiver
    m,                      \* a Matrix (receiver of the Matrix operations)
    tgt,                    \* a Matrix (argument of the Matrix operations)
    res                     \* history: the last Matrix operation, with the operands before it

vars == <<n, td, pc, i, row, errSum, errorWithinTolerence, testCount, ret,
          returned, log, last, errs, n0, trains, calc, doc, m, tgt, res>>

\* the variables only the serialization and Matrix specifications change
auxVars == <<doc, m, tgt, res>>

trainVars ==
    <<pc, i, row, errSum, errorWithinTolerence, testCount, ret, log, errs, n0, trains, calc>>

\* ---------------------------------------------------------------- bounds
MaxRows == 2        \* rows a caller adds to a TrainingData
MaxLen == 2         \* longest input / output vector of a row
MaxVal == 1         \* largest component of an output vector
MaxRand == 1        \* largest value the random source yields for a cell
MaxIter == 2        \* largest Iterations
MaxTarget == 2      \* TargetError is one of 0/2 .. MaxTarget/2
SplitDen == 5       \* Split is one of 1/SplitDen, 1/2, 1
MaxTrains == 1      \* Train calls per behaviour
MaxCalls == 2 * (MaxRows + 1) + 1   \* caller's NextRow calls after a Prepare

Nil == 0            \* nil *DataRow
NoErr == "nil"      \* nil error
NilMatrix == [cols |-> 0, rows |-> 0, values |-> <<>>, nil |-> TRUE]

\* ---------------------------------------------------------------- float64 quotients
\* a float64 quotient is [num, den] in lowest terms with den > 0, or one of:
NaN == [num |-> 0, den |-> 0]
PosInf == [num |-> 1, den |-> 0]
NegInf == [num |-> -1, den |-> 0]

Abs(x) == IF x < 0 THEN -x ELSE x

RECURSIVE GCD(_, _)
GCD(a, b) == IF b = 0 THEN a ELSE GCD(b, a % b)

\* the fraction num/den (den > 0) in lowest terms
Frac(num, den) ==
    LET g == GCD(Abs(num), den)
    IN  [num |-> num \div g, den |-> den \div g]

FInt(x) == [num |-> x, den |-> 1]

IsFinite(x) == x.den # 0

\* x + y on float64
FAdd(x, y) ==
    IF x = NaN \/ y = NaN THEN NaN
    ELSE IF x = PosInf THEN (IF y = NegInf THEN NaN ELSE PosInf)
    ELSE IF x = NegInf THEN (IF y = PosInf THEN NaN ELSE NegInf)
    ELSE IF ~IsFinite(y) THEN y
    ELSE Frac(x.num * y.den + y.num * x.den, x.den * y.den)

\* x / float64(c) for a count c >= 0
FDivInt(x, c) ==
    IF ~IsFinite(x) THEN x
    ELSE IF c = 0 THEN (IF x.num = 0 THEN NaN ELSE IF x.num > 0 THEN PosInf ELSE NegInf)
    ELSE Frac(x.num, x.den * c)

\* x > t and x <= t on float64, t finite; every comparison with NaN is false
FGreater(x, t) ==
    IF x = NaN THEN FALSE
    ELSE IF x = PosInf THEN TRUE
    ELSE IF x = NegInf THEN FALSE
    ELSE x.num * t.den > t.num * x.den

FLessEq(x, t) ==
    IF x = NaN THEN FALSE
    ELSE IF x = PosInf THEN FALSE
    ELSE IF x = NegInf THEN TRUE
    ELSE x.num * t.den <= t.num * x.den

\* ---------------------------------------------------------------- TrainingData (data.go)
\* math.Round(float64(len) * Split) for Split = s.num / s.den >= 0: half away from zero
Round(len, s) == (2 * len * s.num + s.den) \div (2 * s.den)

NewTrainingData(iterations, split, errMargin) ==
    [trainingData |-> <<>>, testingData |-> <<>>, Data |-> <<>>,
     Split |-> split, Iterations |-> iterations, TargetError |-> errMargin,
     position |-> 0]

AddRowTo(d, inputs, outp) ==
    [d EXCEPT !.Data = Append(@, [Input |-> inputs, Ouput |-> outp])]

\* SwapIndex without the temporary: index[p1] = index[p2]; index[p2] = index[p1]
SwapIndex_NoTmp(index, p1, p2) ==
    [index EXCEPT ![p1 + 1] = index[p2 + 1]]

\* tmp := index[p1]; index[p1] = index[p2]; index[p2] = tmp   (p1, p2 0-based)
SwapIndex(index, p1, p2) ==
    LET tmp == index[p1 + 1]
        a   == [index EXCEPT ![p1 + 1] = index[p2 + 1]]
    IN  [a EXCEPT ![p2 + 1] = tmp]

\* the index slices the shuffle loop can leave after `times` more swaps
RECURSIVE Shuffle(_, _, _)
Shuffle(S, len, times) ==
    IF times = 0 THEN S
    ELSE Shuffle({SwapIndex(index, p1, p2) :
                     index \in S, p1 \in 0..(len - 1), p2 \in 0..(len - 1)},
                 len, times - 1)

\* the rows of `index` at the 0-based positions satisfying Keep, in order
RECURSIVE Partition(_, _, _, _)
Partition(index, pos, trainCount, wantTrain) ==
    IF pos >= Len(index) THEN <<>>
    ELSE IF (pos < trainCount) = wantTrain
         THEN <<index[pos + 1]>> \o Partition(index, pos + 1, trainCount, wantTrain)
         ELSE Partition(index, pos + 1, trainCount, wantTrain)

\* the states Prepare can leave d in (one per outcome of the random swaps)
Prepare(d) ==
    LET len        == Len(d.Data)
        trainCount == Round(len, d.Split)
        identity   == [j \in 1..len |-> j]
    IN  {[d EXCEPT !.trainingData = Partition(index, 0, trainCount, TRUE),
                   !.testingData  = Partition(index, 0, trainCount, FALSE),
                   !.position     = 0] :
            index \in Shuffle({identity}, len, len)}

\* NextRow that leaves the position where it is at the end of the epoch
NextRow_NoReset(d) ==
    IF d.position >= Len(d.trainingData)
    THEN [row |-> Nil, d |-> d]
    ELSE [row |-> d.trainingData[d.position + 1],
          d   |-> [d EXCEPT !.position = @ + 1]]

\* NextRow: the row returned and the TrainingData after the call
NextRow(d) ==
    IF d.position >= Len(d.trainingData)
    THEN [row |-> Nil, d |-> [d EXCEPT !.position = 0]]
    ELSE [row |-> d.trainingData[d.position + 1],
          d   |-> [d EXCEPT !.position = @ + 1]]

TestData(d) == d.testingData
TrainingCount(d) == Len(d.trainingData)
TestCount(d) == Len(d.testingData)

\* ---------------------------------------------------------------- uint32
Half == 65536       \* 2^16: a uint32 is hi * Half + lo

\* the uint32 with high half hi and low part low (low may carry into the high half)
Limbs(hi, low) == ((hi + (low \div Half)) % Half) * Half + (low % Half)

\* a * b on uint32 (modulo 2^32), for results below 2^31; two 16-bit factors cannot wrap
MulU32(a, b) ==
    IF a < Half /\ b < Half THEN a * b
    ELSE Limbs(((a \div Half) * (b % Half) + (a % Half) * (b \div Half)) % Half,
               (a % Half) * (b % Half))

\* a + b on uint32 (modulo 2^32), for results below 2^31; two 16-bit terms cannot wrap
AddU32(a, b) ==
    IF a < Half /\ b < Half THEN a + b
    ELSE Limbs(((a \div Half) + (b \div Half)) % Half, (a % Half) + (b % Half))

\* ---------------------------------------------------------------- Matrix (matrix.go)
\* NewMatrix whose length is the product on the integers, not on uint32
NewMatrix_NoWrap(cols, rows) ==
    [cols |-> cols, rows |-> rows,
     values |-> [c \in 1..(cols * rows) |-> 0], nil |-> FALSE]

NewMatrix(cols, rows) ==
    [cols |-> cols, rows |-> rows,
     values |-> [c \in 1..MulU32(cols, rows) |-> 0], nil |-> FALSE]

\* NewMatrixFromSlice: m := NewMatrix(uint32(len(slc)), 1); m.values = slc
NewMatrixFromSlice(slc) == [NewMatrix(Len(slc), 1) EXCEPT !.values = slc]

\* m.values[idx] and m.values[idx] = v ("panic": index out of range of m.values)
Read(m_, idx) ==
    IF idx >= Len(m_.values) THEN [v |-> 0, err |-> "panic"]
    ELSE [v |-> m_.values[idx + 1], err |-> NoErr]

Write(m_, idx, v) ==
    IF idx >= Len(m_.values) THEN [m |-> m_, err |-> "panic"]
    ELSE [m |-> [m_ EXCEPT !.values[idx + 1] = v], err |-> NoErr]

\* At: the value and the error
At(m_, col, r) ==
    IF col >= m_.cols THEN [v |-> 0, err |-> "column out of range"]
    ELSE IF r >= m_.rows THEN [v |-> 0, err |-> "row out of range"]
    ELSE Read(m_, AddU32(MulU32(r, m_.cols), col))

\* Set: the matrix after the call and the error
Set(m_, col, r, v) ==
    IF col >= m_.cols THEN [m |-> m_, err |-> "column out of range"]
    ELSE IF r >= m_.rows THEN [m |-> m_, err |-> "row out of range"]
    ELSE Write(m_, AddU32(MulU32(r, m_.cols), col), v)

\* for y := 0; y < o.rows; y++ { for x := 0; x < o.cols; x++ { o.Set(x, y, cell[x, y]) } }
RECURSIVE SetCells(_, _, _, _)
SetCells(o, cell, x, y) ==
    IF y >= o.rows THEN o
    ELSE IF x >= o.cols THEN SetCells(o, cell, 0, y + 1)
    ELSE SetCells(Set(o, x, y, cell[x, y]).m, cell, x + 1, y)

Cells(o) == (0..(o.cols - 1)) \X (0..(o.rows - 1))

\* v += mC * tC for k := 0 .. m.cols-1
RECURSIVE Dot(_, _, _, _, _)
Dot(m_, tgt_, x, y, c) ==
    IF c >= m_.cols THEN 0
    ELSE At(m_, c, y).v * At(tgt_, x, c).v + Dot(m_, tgt_, x, y, c + 1)

Multiply(m_, tgt_) ==
    IF m_.cols # tgt_.rows THEN [m |-> NilMatrix, err |-> "shape error"]
    ELSE LET o == NewMatrix(tgt_.cols, m_.rows)
         IN  [m |-> SetCells(o, [c \in Cells(o) |-> Dot(m_, tgt_, c[1], c[2], 0)], 0, 0),
              err |-> NoErr]

MultiplyScalar(m_, v) ==
    LET o == NewMatrix(m_.cols, m_.rows)
    IN  SetCells(o, [c \in Cells(o) |-> v * At(m_, c[1], c[2]).v], 0, 0)

MultiplyElements(m_, tgt_) ==
    IF m_.cols # tgt_.cols \/ m_.rows # tgt_.rows THEN [m |-> NilMatrix, err |-> "shape error"]
    ELSE LET o == NewMatrix(m_.cols, m_.rows)
         IN  [m |-> SetCells(o, [c \in Cells(o) |->
                                    At(m_, c[1], c[2]).v * At(tgt_, c[1], c[2]).v], 0, 0),
              err |-> NoErr]

\* Add that compares the columns only
Add_ColsOnly(m_, tgt_) ==
    IF m_.cols # tgt_.cols THEN [m |-> NilMatrix, err |-> "shape error"]
    ELSE LET o == NewMatrix(m_.cols, m_.rows)
         IN  [m |-> SetCells(o, [c \in Cells(o) |->
                                    At(m_, c[1], c[2]).v + At(tgt_, c[1], c[2]).v], 0, 0),
              err |-> NoErr]

Add(m_, tgt_) ==
    IF m_.cols # tgt_.cols \/ m_.rows # tgt_.rows THEN [m |-> NilMatrix, err |-> "shape error"]
    ELSE LET o == NewMatrix(m_.cols, m_.rows)
         IN  [m |-> SetCells(o, [c \in Cells(o) |->
                                    At(m_, c[1], c[2]).v + At(tgt_, c[1], c[2]).v], 0, 0),
              err |-> NoErr]

AddScalar(m_, v) ==
    LET o == NewMatrix(m_.cols, m_.rows)
    IN  SetCells(o, [c \in Cells(o) |-> v + At(m_, c[1], c[2]).v], 0, 0)

Negative(m_) ==
    LET o == NewMatrix(m_.cols, m_.rows)
    IN  SetCells(o, [c \in Cells(o) |-> -At(m_, c[1], c[2]).v], 0, 0)

\* Transpose that returns its receiver's cells in the receiver's shape
Transpose_KeepsShape(m_) ==
    LET o == NewMatrix(m_.cols, m_.rows)
    IN  SetCells(o, [c \in Cells(o) |-> At(m_, c[1], c[2]).v], 0, 0)

Transpose(m_) ==
    LET o == NewMatrix(m_.rows, m_.cols)
    IN  SetCells(o, [c \in Cells(o) |-> At(m_, c[2], c[1]).v], 0, 0)

\* SetValues: the matrix after the call and the error (vals is never a nil slice here)
SetValues(m_, vals) ==
    IF Len(vals) # Len(m_.values) THEN [m |-> m_, err |-> "size error"]
    ELSE [m |-> [m_ EXCEPT !.values = vals], err |-> NoErr]

Values(m_) == m_.values

\* The loops above discard the errors of At and Set (`mC, _ := m.At(x, y)`), but an At or a
\* Set whose index lies past the slice aborts the call: the operation panics when a cell of
\* its loop does.
\* ApplyFunction, MultiplyScalar, AddScalar, Negative: o.Set(x, y, f(m.At(x, y)))
MapPanics(m_) ==
    LET o == NewMatrix(m_.cols, m_.rows)
    IN  \E c \in Cells(o) :
            \/ At(m_, c[1], c[2]).err = "panic"
            \/ Set(o, c[1], c[2], 0).err = "panic"

\* Transpose: o.Set(x, y, m.At(y, x))
TransposePanics(m_) ==
    LET o == NewMatrix(m_.rows, m_.cols)
    IN  \E c \in Cells(o) :
            \/ At(m_, c[2], c[1]).err = "panic"
            \/ Set(o, c[1], c[2], 0).err = "panic"

\* Add, MultiplyElements, past the shape test: o.Set(x, y, m.At(x, y) op tgt.At(x, y))
PairPanics(m_, tgt_) ==
    /\ m_.cols = tgt_.cols
    /\ m_.rows = tgt_.rows
    /\ LET o == NewMatrix(m_.cols, m_.rows)
       IN  \E c \in Cells(o) :
               \/ At(m_, c[1], c[2]).err = "panic"
               \/ At(tgt_, c[1], c[2]).err = "panic"
               \/ Set(o, c[1], c[2], 0).err = "panic"

\* Multiply, past the shape test: m.At(k, y), tgt.At(x, k) for every k, then o.Set(x, y, v)
MultiplyPanics(m_, tgt_) ==
    /\ m_.cols = tgt_.rows
    /\ LET o == NewMatrix(tgt_.cols, m_.rows)
       IN  \E c \in Cells(o) :
               \/ \E k \in 0..(m_.cols - 1) :
                     \/ At(m_, k, c[2]).err = "panic"
                     \/ At(tgt_, c[1], k).err = "panic"
               \/ Set(o, c[1], c[2], 0).err = "panic"

\* ---------------------------------------------------------------- function registries
Sigmoid == 0
Relu == 1
Tanh == 2
LeakyRelu == 3
Softplus == 4
Swish == 5
ELU == 6
GELU == 7
Linear == 8
MeanSquaredError == 0
MeanAbsoluteError == 1
BinaryCrossEntropy == 2
CategoricalCrossEntropy == 3

\* the solver registered under an ActivationFunction id; "nil" when there is none
getActivationFunctions(name) ==
    CASE name = Sigmoid   -> "fsigmoid"
      [] name = Relu      -> "frelu"
      [] name = Tanh      -> "ftanh"
      [] name = LeakyRelu -> "fleakyrelu"
      [] name = Softplus  -> "fsoftlus"
      [] name = Swish     -> "fswish"
      [] name = ELU       -> "felu"
      [] name = GELU      -> "fgelu"
      [] name = Linear    -> "flinear"
      [] OTHER            -> "nil"

\* the solver registered under an ErrorFunction id; "nil" when there is none
getErrorFunction(name) ==
    CASE name = MeanSquaredError        -> "emse"
      [] name = MeanAbsoluteError       -> "emae"
      [] name = BinaryCrossEntropy      -> "ebce"
      [] name = CategoricalCrossEntropy -> "ecce"
      [] OTHER                          -> "nil"

\* activationSolver.f and .df of the solver registered under `name` (a Network's solver is
\* always the one New or UnmarshalJSON resolved from its selector)
F(name, v) ==
    CASE name = Relu   -> IF v > 0 THEN v ELSE 0
      [] name = Linear -> v

Df(name, v) ==
    CASE name = Relu   -> IF v > 0 THEN 1 ELSE 0
      [] name = Linear -> 1

\* m.ApplyFunction(solver.F) and m.ApplyFunction(solver.Df)
ApplyF(m_, name) ==
    LET o == NewMatrix(m_.cols, m_.rows)
    IN  SetCells(o, [c \in Cells(o) |-> F(name, At(m_, c[1], c[2]).v)], 0, 0)

ApplyDf(m_, name) ==
    LET o == NewMatrix(m_.cols, m_.rows)
    IN  SetCells(o, [c \in Cells(o) |-> Df(name, At(m_, c[1], c[2]).v)], 0, 0)

\* NewMatrix(cols, rows).ApplyFunction(getRandom): one matrix per outcome of the draws
RandomMatrices(cols, rows) ==
    LET o == NewMatrix(cols, rows)
    IN  {SetCells(o, cell, 0, 0) : cell \in [Cells(o) -> 0..MaxRand]}

\* sum over `for i, v := range vs` of term(v, tgts[i]); indexing tgts past its end panics
RECURSIVE ErrTerms(_, _, _, _)
ErrTerms(name, vs, tgts, j) ==
    IF j > Len(vs) THEN 0
    ELSE LET d == vs[j] - tgts[j]
         IN  (IF name = MeanSquaredError THEN d * d ELSE Abs(d))
             + ErrTerms(name, vs, tgts, j + 1)

\* errorSolver.Calculate(vs, tgts): the float64 result, or the index-out-of-range panic
Calculate(name, vs, tgts) ==
    IF Len(vs) > Len(tgts) THEN [v |-> NaN, panic |-> TRUE]
    ELSE [v |-> FDivInt(FInt(ErrTerms(name, vs, tgts, 1)), Len(vs)), panic |-> FALSE]

\* ---------------------------------------------------------------- Network (network.go)
Last(n_) == Len(n_.topology)

\* the weight and bias slices New can build for layers i .. len(topology)-2 (i 0-based)
RECURSIVE NewLayers(_, _)
NewLayers(topology, l) ==
    IF l >= Len(topology) - 1 THEN {[w |-> <<>>, b |-> <<>>]}
    ELSE {[w |-> <<wm>> \o rest.w, b |-> <<bm>> \o rest.b] :
             wm \in RandomMatrices(topology[l + 2], topology[l + 1]),
             bm \in RandomMatrices(topology[l + 2], 1),
             rest \in NewLayers(topology, l + 1)}

\* New(c): the Networks it can return (one per outcome of the random draws)
New(c) ==
    {[topology       |-> c.Topology,
      learningRate   |-> c.LearningRate,
      activation     |-> c.Activation,
      solver         |-> getActivationFunctions(c.Activation),
      output         |-> c.Output,
      outputSolver   |-> getActivationFunctions(c.Output),
      errFunc        |-> c.Error,
      errorSolver    |-> getErrorFunction(c.Error),
      debug          |-> ~c.Quiet,
      sm             |-> c.SoftMax,
      weightMatrices |-> layers.w,
      biasMatrices   |-> layers.b,
      valueMatrices  |-> [l \in 1..Len(c.Topology) |-> NilMatrix]] :
        layers \in NewLayers(c.Topology, 0)}

\* The cells softMax computes are quotients of sums of powers of e.  Such a sum, with
\* integer coefficients, is the function from its exponents to their non-zero coefficients:
\* e is transcendental, so two sums are the same number exactly when they are the same
\* function.
\* the integer c
Whole(c) == [k \in (IF c = 0 THEN {} ELSE {0}) |-> c]

\* the float64 cell math.Exp(v) / total, for an integer v and a sum total
ExpOver(v, total) == [exp |-> v, over |-> total]

\* `total += v` for the values from the j-th on
RECURSIVE Total(_, _)
Total(values, j) == IF j > Len(values) THEN 0 ELSE values[j] + Total(values, j + 1)

\* softMax: output[i] = math.Exp(v); total += v; then output[i] /= total
softMax(vs) ==
    NewMatrixFromSlice([j \in 1..Len(Values(vs)) |->
                           ExpOver(vs.values[j], Whole(Total(vs.values, 1)))])

\* the loop of feedForward from layer l (0-based) on, `values` being the layer's input
RECURSIVE FeedLayers(_, _, _)
FeedLayers(n_, values, l) ==
    IF l >= Len(n_.weightMatrices)
    THEN [n |-> [n_ EXCEPT !.valueMatrices[Len(n_.weightMatrices) + 1] =
                               IF n_.sm THEN softMax(values) ELSE values],
          err |-> NoErr]
    ELSE LET n1  == [n_ EXCEPT !.valueMatrices[l + 1] = values]
             mul == Multiply(values, n_.weightMatrices[l + 1])
             sum == Add(mul.m, n_.biasMatrices[l + 1])
         IN  IF mul.err # NoErr THEN [n |-> n1, err |-> "feed forward error: " \o mul.err]
             ELSE IF sum.err # NoErr THEN [n |-> n1, err |-> "feed forward error: " \o sum.err]
             ELSE FeedLayers(n1,
                             IF l < Len(n_.weightMatrices) - 1
                             THEN ApplyF(sum.m, n_.activation)
                             ELSE ApplyF(sum.m, n_.output),
                             l + 1)

\* feedForward that caches the input before it validates its size
feedForward_CachesFirst(n_, input) ==
    LET o      == NewMatrix(Len(input), 1)
        values == SetCells(o, [c \in Cells(o) |-> input[c[1] + 1]], 0, 0)
    IN  IF Len(input) # n_.topology[1]
        THEN [n |-> [n_ EXCEPT !.valueMatrices[1] = values], err |-> "incorrect input size"]
        ELSE FeedLayers(n_, values, 0)

\* feedForward: the Network after the call and the error
feedForward(n_, input) ==
    IF Len(input) # n_.topology[1]
    THEN [n |-> n_, err |-> "incorrect input size"]
    ELSE LET o      == NewMatrix(Len(input), 1)
             values == SetCells(o, [c \in Cells(o) |-> input[c[1] + 1]], 0, 0)
         IN  FeedLayers(n_, values, 0)

\* the loop of backPropagate from layer l (0-based) down to 0
RECURSIVE BackLayers(_, _, _)

\* the loop with the error for the previous layer computed after the weight update, from the
\* updated matrix
BackLayers_UpdatesFirst(n_, errMtx, l) ==
    IF l < 0 THEN [n |-> n_, err |-> NoErr]
    ELSE LET dOutputs        == ApplyDf(n_.valueMatrices[l + 2], n_.activation)
             prod            == MultiplyElements(errMtx, dOutputs)
             gradients       == MultiplyScalar(prod.m, n_.learningRate)
             weightGradients == Multiply(Transpose(n_.valueMatrices[l + 1]), gradients)
             newW            == Add(n_.weightMatrices[l + 1], weightGradients.m)
             n1              == [n_ EXCEPT !.weightMatrices[l + 1] = newW.m]
             newB            == Add(n_.biasMatrices[l + 1], gradients)
             n2              == [n1 EXCEPT !.biasMatrices[l + 1] = newB.m]
             prevErrors      == Multiply(errMtx, Transpose(newW.m))
         IN  IF prod.err # NoErr \/ weightGradients.err # NoErr \/ newW.err # NoErr
                \/ newB.err # NoErr \/ prevErrors.err # NoErr
             THEN [n |-> n_, err |-> "back propagation error: shape error"]
             ELSE BackLayers(n2, prevErrors.m, l - 1)

BackLayers(n_, errMtx, l) ==
    IF l < 0 THEN [n |-> n_, err |-> NoErr]
    ELSE LET prevErrors      == Multiply(errMtx, Transpose(n_.weightMatrices[l + 1]))
             dOutputs        == ApplyDf(n_.valueMatrices[l + 2], n_.activation)
             prod            == MultiplyElements(errMtx, dOutputs)
             gradients       == MultiplyScalar(prod.m, n_.learningRate)
             weightGradients == Multiply(Transpose(n_.valueMatrices[l + 1]), gradients)
             newW            == Add(n_.weightMatrices[l + 1], weightGradients.m)
             n1              == [n_ EXCEPT !.weightMatrices[l + 1] = newW.m]
             newB            == Add(n_.biasMatrices[l + 1], gradients)
             n2              == [n1 EXCEPT !.biasMatrices[l + 1] = newB.m]
         IN  IF prevErrors.err # NoErr THEN [n |-> n_, err |-> "back propagation error: " \o prevErrors.err]
             ELSE IF prod.err # NoErr THEN [n |-> n_, err |-> "back propagation error: " \o prod.err]
             ELSE IF weightGradients.err # NoErr
                  THEN [n |-> n_, err |-> "back propagation error: " \o weightGradients.err]
             ELSE IF newW.err # NoErr THEN [n |-> n1, err |-> "back propagation error: " \o newW.err]
             ELSE IF newB.err # NoErr THEN [n |-> n2, err |-> "back propagation error: " \o newB.err]
             ELSE BackLayers(n2, prevErrors.m, l - 1)

\* backPropagate without the check of the target's size
backPropagate_NoCheck(n_, tgtOut) ==
    IF n_.valueMatrices[Len(n_.valueMatrices)].nil
    THEN [n |-> n_, err |-> "panic"]
    ELSE LET target == NewMatrix(Len(tgtOut), 1)
             errMtx == Add([target EXCEPT !.values = tgtOut],
                           Negative(n_.valueMatrices[Len(n_.valueMatrices)]))
         IN  IF errMtx.err # NoErr
             THEN [n |-> n_, err |-> "back propagation error: " \o errMtx.err]
             ELSE BackLayers(n_, errMtx.m, Len(n_.weightMatrices) - 1)

\* backPropagate with the output error taken as prediction - target
backPropagate_PredictedMinusTarget(n_, tgtOut) ==
    IF Len(tgtOut) # n_.topology[Last(n_)]
    THEN [n |-> n_, err |-> "output is incorrect size"]
    ELSE IF n_.valueMatrices[Len(n_.valueMatrices)].nil
    THEN [n |-> n_, err |-> "panic"]
    ELSE LET target == SetValues(NewMatrix(Len(tgtOut), 1), tgtOut).m
             errMtx == Add(n_.valueMatrices[Len(n_.valueMatrices)], Negative(target))
         IN  IF errMtx.err # NoErr
             THEN [n |-> n_, err |-> "back propagation error: " \o errMtx.err]
             ELSE BackLayers(n_, errMtx.m, Len(n_.weightMatrices) - 1)

\* backPropagate: the Network after the call and the error ("panic": nil *Matrix dereferenced)
backPropagate(n_, tgtOut) ==
    IF Len(tgtOut) # n_.topology[Last(n_)]
    THEN [n |-> n_, err |-> "output is incorrect size"]
    ELSE IF n_.valueMatrices[Len(n_.valueMatrices)].nil
    THEN [n |-> n_, err |-> "panic"]
    ELSE LET target == SetValues(NewMatrix(Len(tgtOut), 1), tgtOut).m
             errMtx == Add(target, Negative(n_.valueMatrices[Len(n_.valueMatrices)]))
         IN  IF errMtx.err # NoErr
             THEN [n |-> n_, err |-> "back propagation error: " \o errMtx.err]
             ELSE BackLayers(n_, errMtx.m, Len(n_.weightMatrices) - 1)

getPrediction(n_) == Values(n_.valueMatrices[Len(n_.valueMatrices)])

\* Predict that also adds its prediction to the last layer's bias
Predict_Learns(n_, input) ==
    LET r == feedForward(n_, input)
    IN  IF r.err # NoErr THEN [n |-> r.n, out |-> <<>>, err |-> "prediction error: " \o r.err]
        ELSE [n   |-> [r.n EXCEPT !.biasMatrices[Len(r.n.biasMatrices)] =
                                      Add(@, r.n.valueMatrices[Len(r.n.valueMatrices)]).m],
              out |-> getPrediction(r.n), err |-> NoErr]

\* Predict: the Network after the call, the returned slice and the error
Predict(n_, input) ==
    LET r == feedForward(n_, input)
    IN  IF r.err # NoErr THEN [n |-> r.n, out |-> <<>>, err |-> "prediction error: " \o r.err]
        ELSE [n |-> r.n, out |-> getPrediction(r.n), err |-> NoErr]

\* ---------------------------------------------------------------- JSON (matrix.go, network.go)
\* the value json.Unmarshal leaves in a struct field: the key's value, or the zero value of
\* the field's type when the key is absent
Field(data, key, zero) == IF key \in DOMAIN data THEN data[key] ELSE zero

\* Matrix.MarshalJSON: the object {"c": cols, "r": rows, "v": values}
MatrixMarshalJSON(m_) == [c |-> m_.cols, r |-> m_.rows, v |-> m_.values]

\* Matrix.UnmarshalJSON on the fresh Matrix json.Unmarshal allocates for an array element
MatrixUnmarshalJSON(data) ==
    [cols   |-> Field(data, "c", 0),
     rows   |-> Field(data, "r", 0),
     values |-> Field(data, "v", <<>>),
     nil    |-> FALSE]

\* Network.MarshalJSON that writes the two activation selectors under each other's key
MarshalJSON_SwapsSelectors(n_) ==
    [ok     |-> TRUE,
     fields |-> [t |-> n_.topology,
                 w |-> [l \in 1..Len(n_.weightMatrices) |->
                           MatrixMarshalJSON(n_.weightMatrices[l])],
                 b |-> [l \in 1..Len(n_.biasMatrices) |->
                           MatrixMarshalJSON(n_.biasMatrices[l])],
                 k |-> n_.learningRate,
                 a |-> n_.output,
                 o |-> n_.activation,
                 e |-> n_.errFunc,
                 d |-> n_.debug,
                 s |-> n_.sm]]

\* Network.MarshalJSON: the document (json.Marshal fails only on a NaN or infinite cell,
\* which integer cells never are)
MarshalJSON(n_) ==
    [ok     |-> TRUE,
     fields |-> [t |-> n_.topology,
                 w |-> [l \in 1..Len(n_.weightMatrices) |->
                           MatrixMarshalJSON(n_.weightMatrices[l])],
                 b |-> [l \in 1..Len(n_.biasMatrices) |->
                           MatrixMarshalJSON(n_.biasMatrices[l])],
                 k |-> n_.learningRate,
                 a |-> n_.activation,
                 o |-> n_.output,
                 e |-> n_.errFunc,
                 d |-> n_.debug,
                 s |-> n_.sm]]

\* Network.UnmarshalJSON: the Network after the call and the error
UnmarshalJSON(n_, body) ==
    IF ~body.ok THEN [n |-> n_, err |-> "json error"]
    ELSE LET data == body.fields
             t    == Field(data, "t", <<>>)
             w    == Field(data, "w", <<>>)
             b    == Field(data, "b", <<>>)
             a    == Field(data, "a", 0)
             o    == Field(data, "o", 0)
             e    == Field(data, "e", 0)
         IN  [n   |-> [topology       |-> t,
                       learningRate   |-> Field(data, "k", 0),
                       activation     |-> a,
                       solver         |-> getActivationFunctions(a),
                       output         |-> o,
                       outputSolver   |-> getActivationFunctions(o),
                       errFunc        |-> e,
                       errorSolver    |-> getErrorFunction(e),
                       debug          |-> Field(data, "d", FALSE),
                       sm             |-> Field(data, "s", FALSE),
                       weightMatrices |-> [l \in 1..Len(w) |-> MatrixUnmarshalJSON(w[l])],
                       biasMatrices   |-> [l \in 1..Len(b) |-> MatrixUnmarshalJSON(b[l])],
                       valueMatrices  |-> [l \in 1..Len(t) |-> NilMatrix]],
              err |-> NoErr]

\* the Network has the shape New gives it, with functions the model computes: its Train and
\* Predict then run as modelled above
Built(n_) ==
    /\ Len(n_.topology) >= 2
    /\ Len(n_.weightMatrices) = Len(n_.topology) - 1
    /\ Len(n_.biasMatrices) = Len(n_.topology) - 1
    /\ Len(n_.valueMatrices) = Len(n_.topology)
    /\ \A l \in 1..(Len(n_.topology) - 1) :
          /\ n_.weightMatrices[l].cols = n_.topology[l + 1]
          /\ n_.weightMatrices[l].rows = n_.topology[l]
          /\ Len(n_.weightMatrices[l].values) = n_.topology[l + 1] * n_.topology[l]
          /\ n_.biasMatrices[l].cols = n_.topology[l + 1]
          /\ n_.biasMatrices[l].rows = 1
          /\ Len(n_.biasMatrices[l].values) = n_.topology[l + 1]
    /\ n_.activation \in {Relu, Linear}
    /\ n_.output \in {Relu, Linear}
    /\ n_.errFunc \in {MeanSquaredError, MeanAbsoluteError}
    /\ ~n_.sm

\* ---------------------------------------------------------------- inputs
Rate == 1           \* the configured LearningRate

Topologies == {<<1, 1>>, <<2, 1>>}

\* the configured (Activation, Output) pairs
Activations == {<<Relu, Linear>>, <<Linear, Relu>>}

Configs ==
    {[Topology |-> t, LearningRate |-> Rate, Activation |-> a[1], Output |-> a[2],
      Error |-> MeanSquaredError, Quiet |-> TRUE, SoftMax |-> FALSE] :
        t \in Topologies, a \in Activations}

\* the rows a caller adds: inputs of every length, outputs of length 1 with every value and
\* longer ones
Inputs == {[j \in 1..len |-> 1] : len \in 1..MaxLen}
Outputs == {<<v>> : v \in 0..MaxVal} \cup {[j \in 1..len |-> MaxVal] : len \in 2..MaxLen}

Splits == {[num |-> 1, den |-> SplitDen], [num |-> 1, den |-> 2], [num |-> 1, den |-> 1]}

Targets == {Frac(t, 2) : t \in 0..MaxTarget}

NoRet == [v |-> FInt(0), err |-> NoErr, ctx |-> "none"]

\* the error function has not been called; it was called with vs and tgts
NoCalc == [called |-> FALSE, vs |-> <<>>, tgts |-> <<>>]
Calc(vs, tgts) == [called |-> TRUE, vs |-> vs, tgts |-> tgts]

\* no document exported yet; no Matrix operation called yet
NoBody == [ok |-> FALSE, fields |-> [none |-> TRUE]]
NoRes ==
    [op |-> "none", m |-> NewMatrix(0, 0), tgt |-> NewMatrix(0, 0), arg |-> <<>>,
     out |-> NilMatrix, v |-> 0, err |-> NoErr]

Call(op, arg, err, out) == [op |-> op, arg |-> arg, err |-> err, out |-> out, n |-> n, td |-> td]

Event(op, r) == [op |-> op, row |-> r]

\* ---------------------------------------------------------------- the state machine
Init ==
    /\ \E c \in Configs : n \in New(c)
    /\ \E it \in 0..MaxIter, s \in Splits, e \in Targets :
          td = NewTrainingData(it, s, e)
    /\ pc = "idle"
    /\ i = 0
    /\ row = Nil
    /\ errSum = FInt(0)
    /\ errorWithinTolerence = TRUE
    /\ testCount = 0
    /\ ret = NoRet
    /\ returned = <<>>
    /\ log = <<>>
    /\ last = [op |-> "New", arg |-> <<>>, err |-> NoErr, out |-> <<>>, n |-> n, td |-> td]
    /\ errs = <<>>
    /\ n0 = n
    /\ trains = 0
    /\ calc = NoCalc
    /\ doc = [body |-> NoBody, n |-> n]
    /\ m = NewMatrix(0, 0)
    /\ tgt = NewMatrix(0, 0)
    /\ res = NoRes

\* The caller follows the library's protocol: construct, AddRow*, Train, Predict*
\* (pc = "idle" before the Train call, "done" once it has returned); Prepare and NextRow
\* are called directly only in SpecData.
CallerRuns == pc \in {"idle", "done"}

\* the caller: td.AddRow(inputs, outp)
AddRow ==
    /\ pc = "idle"
    /\ Len(td.Data) < MaxRows
    /\ \E inputs \in Inputs, outp \in Outputs :
          /\ td' = AddRowTo(td, inputs, outp)
          /\ last' = Call("AddRow", inputs, NoErr, outp)
    /\ UNCHANGED <<n, returned>>
    /\ UNCHANGED trainVars
    /\ UNCHANGED auxVars

\* the caller: td.Prepare()
CallPrepare ==
    /\ CallerRuns
    /\ td' \in Prepare(td)
    /\ returned' = <<>>
    /\ last' = Call("Prepare", <<>>, NoErr, <<>>)
    /\ UNCHANGED n
    /\ UNCHANGED trainVars
    /\ UNCHANGED auxVars

\* the caller: td.NextRow()
CallNextRow ==
    /\ CallerRuns
    /\ Len(returned) < MaxCalls
    /\ LET r == NextRow(td)
       IN  /\ td' = r.d
           /\ returned' = Append(returned, r.row)
           /\ last' = Call("NextRow", <<>>, NoErr, <<r.row>>)
    /\ UNCHANGED n
    /\ UNCHANGED trainVars
    /\ UNCHANGED auxVars

\* the caller: n.Predict(input)
CallPredict ==
    /\ pc = "done"
    /\ \E input \in Inputs :
          LET r == Predict(n, input)
          IN  /\ n' = r.n
              /\ last' = Call("Predict", input, r.err, r.out)
    /\ UNCHANGED <<td, returned>>
    /\ UNCHANGED trainVars
    /\ UNCHANGED auxVars

\* n.Train(td), up to the first test of the epoch loop (network.go 317-351)
TrainCall ==
    /\ pc = "idle"
    /\ trains < MaxTrains
    /\ trains' = trains + 1
    /\ td' \in Prepare(td)
    /\ returned' = <<>>
    /\ log' = <<Event("Prepare", Nil)>>
    /\ last' = Call("Prepare", <<>>, NoErr, <<>>)
    /\ n0' = n
    /\ errSum' = FInt(0)
    /\ i' = 0
    /\ errs' = <<>>
    /\ IF 0 < td.Iterations
       THEN pc' = "nextRow" /\ ret' = NoRet
       ELSE pc' = "done" /\ ret' = [v |-> errSum', err |-> NoErr, ctx |-> "none"]
    /\ calc' = NoCalc
    /\ UNCHANGED <<n, row, errorWithinTolerence, testCount>>
    /\ UNCHANGED auxVars

\* row := td.NextRow(); if row == nil { break }; after the break errSum, errorWithinTolerence
\* and testCount are reset (network.go 365-368, 376-378)
TrainNextRow ==
    /\ pc = "nextRow"
    /\ LET r == NextRow(td)
       IN  /\ td' = r.d
           /\ row' = r.row
           /\ returned' = Append(returned, r.row)
           /\ log' = Append(log, Event("NextRow", r.row))
           /\ last' = Call("NextRow", <<>>, NoErr, <<r.row>>)
           /\ IF r.row = Nil
              THEN /\ pc' = "evaluate"
                   /\ errSum' = FInt(0)
                   /\ errorWithinTolerence' = TRUE
                   /\ testCount' = 0
                   /\ errs' = <<>>
              ELSE /\ pc' = "feedForward"
                   /\ UNCHANGED <<errSum, errorWithinTolerence, testCount, errs>>
    /\ UNCHANGED <<n, i, ret, n0, trains, calc>>
    /\ UNCHANGED auxVars

\* TrainFeedForward that fetches the next row without calling backPropagate
TrainFeedForward_SkipsBack ==
    /\ pc = "feedForward"
    /\ LET r == feedForward(n, td.Data[row].Input)
       IN  /\ n' = r.n
           /\ log' = Append(log, Event("feedForward", row))
           /\ last' = Call("feedForward", td.Data[row].Input, r.err, <<>>)
           /\ IF r.err # NoErr
              THEN pc' = "done" /\ ret' = [v |-> FInt(0), err |-> "training error: " \o r.err,
                                      ctx |-> "training error"]
              ELSE pc' = "nextRow" /\ UNCHANGED ret
    /\ UNCHANGED <<td, i, row, errSum, errorWithinTolerence, testCount, returned, errs, n0, trains,
                   calc>>
    /\ UNCHANGED auxVars

\* TrainFeedForward that skips a row it fails on and fetches the next one
TrainFeedForward_Continues ==
    /\ pc = "feedForward"
    /\ LET r == feedForward(n, td.Data[row].Input)
       IN  /\ n' = r.n
           /\ log' = Append(log, Event("feedForward", row))
           /\ last' = Call("feedForward", td.Data[row].Input, r.err, <<>>)
           /\ IF r.err # NoErr
              THEN pc' = "nextRow" /\ UNCHANGED ret
              ELSE pc' = "backPropagate" /\ UNCHANGED ret
    /\ UNCHANGED <<td, i, row, errSum, errorWithinTolerence, testCount, returned, errs, n0, trains,
                   calc>>
    /\ UNCHANGED auxVars

\* if err := n.feedForward(row.Input); err != nil { return 0, ... } (network.go 369-371)
TrainFeedForward ==
    /\ pc = "feedForward"
    /\ LET r == feedForward(n, td.Data[row].Input)
       IN  /\ n' = r.n
           /\ log' = Append(log, Event("feedForward", row))
           /\ last' = Call("feedForward", td.Data[row].Input, r.err, <<>>)
           /\ IF r.err # NoErr
              THEN pc' = "done" /\ ret' = [v |-> FInt(0), err |-> "training error: " \o r.err,
                                      ctx |-> "training error"]
              ELSE pc' = "backPropagate" /\ UNCHANGED ret
    /\ UNCHANGED <<td, i, row, errSum, errorWithinTolerence, testCount, returned, errs, n0, trains,
                   calc>>
    /\ UNCHANGED auxVars

\* if err := n.backPropagate(row.Ouput); err != nil { return 0, ... } (network.go 372-374)
TrainBackPropagate ==
    /\ pc = "backPropagate"
    /\ LET r == backPropagate(n, td.Data[row].Ouput)
       IN  /\ n' = r.n
           /\ log' = Append(log, Event("backPropagate", row))
           /\ last' = Call("backPropagate", td.Data[row].Ouput, r.err, <<>>)
           /\ IF r.err = "panic"
              THEN pc' = "panic" /\ UNCHANGED ret
              ELSE IF r.err # NoErr
              THEN pc' = "done" /\ ret' = [v |-> FInt(0), err |-> "training error: " \o r.err,
                                      ctx |-> "training error"]
              ELSE pc' = "nextRow" /\ UNCHANGED ret
    /\ UNCHANGED <<td, i, row, errSum, errorWithinTolerence, testCount, returned, errs, n0, trains,
                   calc>>
    /\ UNCHANGED auxVars

\* TrainEvaluate that also trains on the test row it has evaluated
TrainEvaluate_Learns ==
    /\ pc = "evaluate"
    /\ testCount < Len(TestData(td))
    /\ testCount' = testCount + 1
    /\ LET errCheck == TestData(td)[testCount + 1]
           answer   == Predict(n, td.Data[errCheck].Input)
           v        == Calculate(n.errFunc, td.Data[errCheck].Ouput, answer.out)
       IN  /\ log' = Append(log, Event("Predict", errCheck))
           /\ last' = Call("Predict", td.Data[errCheck].Input, answer.err, answer.out)
           /\ IF answer.err # NoErr
              THEN /\ n' = answer.n
                   /\ pc' = "done"
                   /\ ret' = [v |-> FInt(0), err |-> "error testing error value: " \o answer.err,
                             ctx |-> "error testing error value"]
                   /\ UNCHANGED <<errSum, errorWithinTolerence, errs, calc>>
              ELSE IF v.panic
              THEN /\ n' = answer.n
                   /\ pc' = "panic"
                   /\ calc' = Calc(td.Data[errCheck].Ouput, answer.out)
                   /\ UNCHANGED <<ret, errSum, errorWithinTolerence, errs>>
              ELSE /\ n' = backPropagate(answer.n, td.Data[errCheck].Ouput).n
                   /\ pc' = "evaluate"
                   /\ calc' = Calc(td.Data[errCheck].Ouput, answer.out)
                   /\ errorWithinTolerence' =
                         (IF FGreater(v.v, td.TargetError) THEN FALSE ELSE errorWithinTolerence)
                   /\ errSum' = FAdd(errSum, v.v)
                   /\ errs' = Append(errs, v.v)
                   /\ UNCHANGED ret
    /\ UNCHANGED <<td, i, row, returned, n0, trains>>
    /\ UNCHANGED auxVars

\* one iteration of `for _, errCheck := range td.TestData()` (network.go 380-402)
TrainEvaluate ==
    /\ pc = "evaluate"
    /\ testCount < Len(TestData(td))
    /\ testCount' = testCount + 1
    /\ LET errCheck == TestData(td)[testCount + 1]
           answer   == Predict(n, td.Data[errCheck].Input)
           v        == Calculate(n.errFunc, td.Data[errCheck].Ouput, answer.out)
       IN  /\ n' = answer.n
           /\ log' = Append(log, Event("Predict", errCheck))
           /\ last' = Call("Predict", td.Data[errCheck].Input, answer.err, answer.out)
           /\ IF answer.err # NoErr
              THEN /\ pc' = "done"
                   /\ ret' = [v |-> FInt(0), err |-> "error testing error value: " \o answer.err,
                             ctx |-> "error testing error value"]
                   /\ UNCHANGED <<errSum, errorWithinTolerence, errs, calc>>
              ELSE IF v.panic
              THEN /\ pc' = "panic"
                   /\ calc' = Calc(td.Data[errCheck].Ouput, answer.out)
                   /\ UNCHANGED <<ret, errSum, errorWithinTolerence, errs>>
              ELSE /\ pc' = "evaluate"
                   /\ calc' = Calc(td.Data[errCheck].Ouput, answer.out)
                   /\ errorWithinTolerence' =
                         (IF FGreater(v.v, td.TargetError) THEN FALSE ELSE errorWithinTolerence)
                   /\ errSum' = FAdd(errSum, v.v)
                   /\ errs' = Append(errs, v.v)
                   /\ UNCHANGED ret
    /\ UNCHANGED <<td, i, row, returned, n0, trains>>
    /\ UNCHANGED auxVars

\* TrainCheck that stops early on the mean alone
TrainCheck_MeanOnly ==
    /\ pc = "evaluate"
    /\ testCount >= Len(TestData(td))
    /\ errSum' = FDivInt(errSum, testCount)
    /\ IF FLessEq(errSum', td.TargetError)
       THEN /\ i' = i
            /\ pc' = "done"
            /\ ret' = [v |-> errSum', err |-> NoErr, ctx |-> "none"]
       ELSE /\ i' = i + 1
            /\ IF i + 1 < td.Iterations
               THEN pc' = "nextRow" /\ UNCHANGED ret
               ELSE pc' = "done" /\ ret' = [v |-> errSum', err |-> NoErr, ctx |-> "none"]
    /\ UNCHANGED <<n, td, row, errorWithinTolerence, testCount, returned, log, last, errs, n0,
                   trains, calc>>
    /\ UNCHANGED auxVars

\* the end of the epoch: errSum /= float64(testCount), the early stop, i++ and the loop
\* test, the return (network.go 404-412, 351, 422)
TrainCheck ==
    /\ pc = "evaluate"
    /\ testCount >= Len(TestData(td))
    /\ errSum' = FDivInt(errSum, testCount)
    /\ IF errorWithinTolerence /\ FLessEq(errSum', td.TargetError)
       THEN /\ i' = i
            /\ pc' = "done"
            /\ ret' = [v |-> errSum', err |-> NoErr, ctx |-> "none"]
       ELSE /\ i' = i + 1
            /\ IF i + 1 < td.Iterations
               THEN pc' = "nextRow" /\ UNCHANGED ret
               ELSE pc' = "done" /\ ret' = [v |-> errSum', err |-> NoErr, ctx |-> "none"]
    /\ UNCHANGED <<n, td, row, errorWithinTolerence, testCount, returned, log, last, errs, n0,
                   trains, calc>>
    /\ UNCHANGED auxVars

TrainStep ==
    \/ TrainNextRow
    \/ TrainFeedForward
    \/ TrainBackPropagate
    \/ TrainEvaluate
    \/ TrainCheck

Next ==
    \/ AddRow
    \/ CallPredict
    \/ TrainCall
    \/ TrainNextRow
    \/ TrainFeedForward
    \/ TrainBackPropagate
    \/ TrainEvaluate
    \/ TrainCheck

Spec == Init /\ [][Next]_vars

\* Train runs to completion on the calling thread: a started call keeps taking steps
FairSpec == Spec /\ WF_vars(TrainStep)

\* the TrainingData pipeline alone, driven by a caller
DataConfig == CHOOSE c \in Configs : c.Topology = <<1, 1>>

InitData ==
    /\ Init
    /\ n = CHOOSE x \in New(DataConfig) : TRUE
    /\ td.Iterations = 0
    /\ td.TargetError = FInt(0)

NextData ==
    \/ AddRow
    \/ CallPrepare
    \/ CallNextRow

SpecData == InitData /\ [][NextData]_vars

\* ---------------------------------------------------------------- export and import
\* an id no function is registered under
UnknownId == Linear + 1

\* the document a freshly built Network exports
BaseDoc == MarshalJSON(CHOOSE x \in New(DataConfig) : TRUE).fields

Without(data, key) == [x \in DOMAIN data \ {key} |-> data[x]]

\* the documents a caller imports besides the exported one: a well-formed one, one that is
\* not JSON of the Network's types, and well-typed ones with an unknown selector id, with a
\* matrix record whose "v" has not c*r elements, with one lacking "c" and "r", and with no
\* "w" at all
Documents ==
    {[ok |-> TRUE,  fields |-> BaseDoc],
     [ok |-> FALSE, fields |-> BaseDoc],
     [ok |-> TRUE,  fields |-> [BaseDoc EXCEPT !.a = UnknownId]],
     [ok |-> TRUE,  fields |-> [BaseDoc EXCEPT !.o = UnknownId]],
     [ok |-> TRUE,  fields |-> [BaseDoc EXCEPT !.e = CategoricalCrossEntropy + 1]],
     [ok |-> TRUE,  fields |-> [BaseDoc EXCEPT !.w = <<[c |-> 1, r |-> 1, v |-> <<>>]>>]],
     [ok |-> TRUE,  fields |-> [BaseDoc EXCEPT !.b = <<[v |-> <<1>>]>>]],
     [ok |-> TRUE,  fields |-> Without(BaseDoc, "w")]}

\* the caller: n.MarshalJSON()
CallMarshalJSON ==
    /\ CallerRuns
    /\ doc' = [body |-> MarshalJSON(n), n |-> n]
    /\ last' = Call("MarshalJSON", <<>>, NoErr, <<>>)
    /\ UNCHANGED <<n, td, returned, m, tgt, res>>
    /\ UNCHANGED trainVars

\* the caller: n.UnmarshalJSON(body), of the exported document or of another one
CallUnmarshalJSON ==
    /\ CallerRuns
    /\ \E body \in Documents \cup {doc.body} :
          LET r == UnmarshalJSON(n, body)
          IN  /\ n' = r.n
              /\ last' = Call("UnmarshalJSON", body, r.err, <<>>)
    /\ UNCHANGED <<td, returned, doc, m, tgt, res>>
    /\ UNCHANGED trainVars

\* Train and Predict are called on a Network of the shape New builds
TrainBuilt == Built(n) /\ TrainCall
PredictBuilt == Built(n) /\ CallPredict

\* a caller has built a Network and a TrainingData of two rows
InitJSON ==
    /\ n \in New(DataConfig)
    /\ td = AddRowTo(AddRowTo(NewTrainingData(1, [num |-> 1, den |-> 2], FInt(0)),
                              <<1>>, <<0>>),
                     <<1>>, <<MaxVal>>)
    /\ pc = "idle"
    /\ i = 0
    /\ row = Nil
    /\ errSum = FInt(0)
    /\ errorWithinTolerence = TRUE
    /\ testCount = 0
    /\ ret = NoRet
    /\ returned = <<>>
    /\ log = <<>>
    /\ last = [op |-> "New", arg |-> <<>>, err |-> NoErr, out |-> <<>>, n |-> n, td |-> td]
    /\ errs = <<>>
    /\ n0 = n
    /\ trains = 0
    /\ calc = NoCalc
    /\ doc = [body |-> NoBody, n |-> n]
    /\ m = NewMatrix(0, 0)
    /\ tgt = NewMatrix(0, 0)
    /\ res = NoRes

NextJSON ==
    \/ CallMarshalJSON
    \/ CallUnmarshalJSON
    \/ PredictBuilt
    \/ TrainBuilt
    \/ TrainNextRow
    \/ TrainFeedForward
    \/ TrainBackPropagate
    \/ TrainEvaluate
    \/ TrainCheck

SpecJSON == InitJSON /\ [][NextJSON]_vars

\* ---------------------------------------------------------------- the Matrix operations
MaxDim == 2         \* largest small dimension of a Matrix
MaxCells == 2       \* longest values slice a caller allocates or passes
MaxScalar == 2      \* largest scalar a caller passes

\* the (cols, rows) a caller passes to NewMatrix: small ones, and the pair whose product is 2^32
Shapes == ((0..MaxDim) \X (0..MaxDim)) \cup {<<Half, Half>>}

\* the (col, row) a caller passes to At and Set
Coords == 0..MaxDim

Scalars == 1..MaxScalar

\* the non-nil slices a caller passes
Slices == UNION {[1..k -> Scalars] : k \in 0..MaxCells}

\* the objects a caller decodes into a Matrix
MatrixRecords ==
    {[c |-> 1, r |-> 1, v |-> <<1>>],
     [c |-> 1, r |-> 1, v |-> <<>>],
     [c |-> 1, r |-> 1, v |-> <<1, 1>>],
     [v |-> <<1>>]}

\* the activation solvers whose F a caller passes to ApplyFunction
Functions == {Relu, Linear}

Op(op, arg, out, v, err) ==
    [op |-> op, m |-> m, tgt |-> tgt, arg |-> arg, out |-> out, v |-> v, err |-> err]

\* the operations that build a new Matrix from their operands
Arithmetic ==
    {"Multiply", "MultiplyElements", "Add", "MultiplyScalar", "AddScalar", "Negative",
     "Transpose", "ApplyFunction"}

\* what the Matrix operations leave alone
others == <<n, td, returned, last, doc, trainVars>>

\* the caller: m = NewMatrix(cols, rows)
CallNewMatrix ==
    /\ \E s \in Shapes :
          /\ MulU32(s[1], s[2]) <= MaxCells
          /\ m' = NewMatrix(s[1], s[2])
          /\ res' = Op("NewMatrix", s, NewMatrix(s[1], s[2]), 0, NoErr)
    /\ UNCHANGED tgt
    /\ UNCHANGED others

\* the caller: m = NewMatrixFromSlice(slc)
CallNewMatrixFromSlice ==
    /\ \E slc \in Slices :
          /\ m' = NewMatrixFromSlice(slc)
          /\ res' = Op("NewMatrixFromSlice", slc, NewMatrixFromSlice(slc), 0, NoErr)
    /\ UNCHANGED tgt
    /\ UNCHANGED others

\* the caller: m.UnmarshalJSON(body) of a well-typed object
CallMatrixUnmarshalJSON ==
    /\ \E rec \in MatrixRecords :
          /\ m' = MatrixUnmarshalJSON(rec)
          /\ res' = Op("UnmarshalJSON", rec, NilMatrix, 0, NoErr)
    /\ UNCHANGED tgt
    /\ UNCHANGED others

\* the caller: m, tgt = tgt, m
Exchange ==
    /\ m # tgt
    /\ m' = tgt
    /\ tgt' = m
    /\ res' = Op("Exchange", <<>>, NilMatrix, 0, NoErr)
    /\ UNCHANGED others

\* the caller: m.At(col, row)
CallAt ==
    /\ \E col \in Coords, r \in Coords :
          LET a == At(m, col, r)
          IN  res' = Op("At", <<col, r>>, NilMatrix, a.v, a.err)
    /\ UNCHANGED <<m, tgt>>
    /\ UNCHANGED others

\* the caller: m.Set(col, row, v)
CallSet ==
    /\ \E col \in Coords, r \in Coords, v \in Scalars :
          LET s == Set(m, col, r, v)
          IN  /\ m' = s.m
              /\ res' = Op("Set", <<col, r, v>>, NilMatrix, 0, s.err)
    /\ UNCHANGED tgt
    /\ UNCHANGED others

\* the caller: m.SetValues(vals), of a slice or of nil (`if vals == nil`: "missing values")
CallSetValues ==
    /\ \/ \E vals \in Slices :
             LET s == SetValues(m, vals)
             IN  /\ m' = s.m
                 /\ res' = Op("SetValues", vals, NilMatrix, 0, s.err)
       \/ /\ m' = m
          /\ res' = Op("SetValues", <<>>, NilMatrix, 0, "missing values")
    /\ UNCHANGED tgt
    /\ UNCHANGED others

\* an operation that returns a Matrix and no error: it panics or returns `out`
Returns(op, arg, panics, out) ==
    /\ res' = Op(op, arg, IF panics THEN NilMatrix ELSE out, 0,
                 IF panics THEN "panic" ELSE NoErr)
    /\ UNCHANGED <<m, tgt>>
    /\ UNCHANGED others

\* an operation that returns (Matrix, error): it panics or returns `r`
ReturnsErr(op, panics, r) ==
    /\ res' = Op(op, <<>>, IF panics THEN NilMatrix ELSE r.m, 0,
                 IF panics THEN "panic" ELSE r.err)
    /\ UNCHANGED <<m, tgt>>
    /\ UNCHANGED others

\* the caller: m.Multiply(tgt), m.MultiplyElements(tgt), m.Add(tgt)
CallMultiply == ReturnsErr("Multiply", MultiplyPanics(m, tgt), Multiply(m, tgt))

CallMultiplyElements ==
    ReturnsErr("MultiplyElements", PairPanics(m, tgt), MultiplyElements(m, tgt))

CallAdd == ReturnsErr("Add", PairPanics(m, tgt), Add(m, tgt))

\* the caller: m.MultiplyScalar(v), m.AddScalar(v)
CallMultiplyScalar ==
    \E v \in Scalars : Returns("MultiplyScalar", <<v>>, MapPanics(m), MultiplyScalar(m, v))

CallAddScalar ==
    \E v \in Scalars : Returns("AddScalar", <<v>>, MapPanics(m), AddScalar(m, v))

\* a Negative that negates the receiver's own cells and returns the receiver
CallNegative_InPlace ==
    /\ m' = IF MapPanics(m) THEN m ELSE Negative(m)
    /\ res' = Op("Negative", <<>>, IF MapPanics(m) THEN NilMatrix ELSE Negative(m), 0,
                 IF MapPanics(m) THEN "panic" ELSE NoErr)
    /\ UNCHANGED tgt
    /\ UNCHANGED others

\* the caller: m.Negative(), m.Transpose()
CallNegative == Returns("Negative", <<>>, MapPanics(m), Negative(m))

CallTranspose == Returns("Transpose", <<>>, TransposePanics(m), Transpose(m))

\* the caller: m.ApplyFunction(solver.F)
CallApplyFunction ==
    \E f \in Functions : Returns("ApplyFunction", <<f>>, MapPanics(m), ApplyF(m, f))

\* a caller with two Matrix values
InitMatrix ==
    /\ n = CHOOSE x \in New(DataConfig) : TRUE
    /\ td = NewTrainingData(0, [num |-> 1, den |-> 1], FInt(0))
    /\ pc = "idle"
    /\ i = 0
    /\ row = Nil
    /\ errSum = FInt(0)
    /\ errorWithinTolerence = TRUE
    /\ testCount = 0
    /\ ret = NoRet
    /\ returned = <<>>
    /\ log = <<>>
    /\ last = [op |-> "New", arg |-> <<>>, err |-> NoErr, out |-> <<>>, n |-> n, td |-> td]
    /\ errs = <<>>
    /\ n0 = n
    /\ trains = 0
    /\ calc = NoCalc
    /\ doc = [body |-> NoBody, n |-> n]
    /\ m = NewMatrix(0, 0)
    /\ tgt = NewMatrix(0, 0)
    /\ res = NoRes

NextMatrix ==
    \/ CallNewMatrix
    \/ CallNewMatrixFromSlice
    \/ CallMatrixUnmarshalJSON
    \/ Exchange
    \/ CallAt
    \/ CallSet
    \/ CallSetValues
    \/ CallMultiply
    \/ CallMultiplyElements
    \/ CallAdd
    \/ CallMultiplyScalar
    \/ CallAddScalar
    \/ CallNegative
    \/ CallTranspose
    \/ CallApplyFunction

SpecMatrix == InitMatrix /\ [][NextMatrix]_vars

\* ---------------------------------------------------------------- feedForward and backPropagate
MaxPasses == 3      \* feedForward and backPropagate calls per behaviour

\* topologies without and with a hidden layer
LayerTopologies == {<<1, 1>>, <<1, 2, 1>>}

\* every (Activation, Output) pair of the two functions
LayerConfigs ==
    {[Topology |-> t, LearningRate |-> Rate, Activation |-> a, Output |-> o,
      Error |-> MeanSquaredError, Quiet |-> TRUE, SoftMax |-> FALSE] :
        t \in LayerTopologies, a \in {Relu, Linear}, o \in {Relu, Linear}}

\* n.feedForward(input), as Train and Predict call it
CallFeedForward ==
    /\ Len(log) < MaxPasses
    /\ \E input \in Inputs :
          LET r == feedForward(n, input)
          IN  /\ n' = r.n
              /\ log' = Append(log, Event("feedForward", Nil))
              /\ last' = Call("feedForward", input, r.err, <<>>)
    /\ UNCHANGED <<td, pc, i, row, errSum, errorWithinTolerence, testCount, ret, returned,
                   errs, n0, trains, calc>>
    /\ UNCHANGED auxVars

\* n.backPropagate(tgtOut), as Train calls it: after a feedForward has filled the cache
CallBackPropagate ==
    /\ Len(log) < MaxPasses
    /\ ~n.valueMatrices[Len(n.valueMatrices)].nil
    /\ \E tgtOut \in Outputs :
          LET r == backPropagate(n, tgtOut)
          IN  /\ n' = r.n
              /\ log' = Append(log, Event("backPropagate", Nil))
              /\ last' = Call("backPropagate", tgtOut, r.err, <<>>)
    /\ UNCHANGED <<td, pc, i, row, errSum, errorWithinTolerence, testCount, ret, returned,
                   errs, n0, trains, calc>>
    /\ UNCHANGED auxVars

\* a Network built by New, with or without a hidden layer
InitLayers ==
    /\ \E c \in LayerConfigs : n \in New(c)
    /\ td = NewTrainingData(0, [num |-> 1, den |-> 1], FInt(0))
    /\ pc = "idle"
    /\ i = 0
    /\ row = Nil
    /\ errSum = FInt(0)
    /\ errorWithinTolerence = TRUE
    /\ testCount = 0
    /\ ret = NoRet
    /\ returned = <<>>
    /\ log = <<>>
    /\ last = [op |-> "New", arg |-> <<>>, err |-> NoErr, out |-> <<>>, n |-> n, td |-> td]
    /\ errs = <<>>
    /\ n0 = n
    /\ trains = 0
    /\ calc = NoCalc
    /\ doc = [body |-> NoBody, n |-> n]
    /\ m = NewMatrix(0, 0)
    /\ tgt = NewMatrix(0, 0)
    /\ res = NoRes

NextLayers ==
    \/ CallFeedForward
    \/ CallBackPropagate

SpecLayers == InitLayers /\ [][NextLayers]_vars

\* ---------------------------------------------------------------- softMax
\* topologies with one and with two output neurons
SoftMaxTopologies == {<<1, 1>>, <<1, 2>>, <<2, 2>>}

SoftMaxConfigs ==
    {[Topology |-> t, LearningRate |-> Rate, Activation |-> a[1], Output |-> a[2],
      Error |-> MeanSquaredError, Quiet |-> TRUE, SoftMax |-> TRUE] :
        t \in SoftMaxTopologies, a \in Activations}

\* the caller: n.Predict(input) on the Network as New built it
PredictUntrained ==
    /\ pc = "idle"
    /\ \E input \in Inputs :
          LET r == Predict(n, input)
          IN  /\ n' = r.n
              /\ last' = Call("Predict", input, r.err, r.out)
    /\ UNCHANGED <<td, returned>>
    /\ UNCHANGED trainVars
    /\ UNCHANGED auxVars

\* a Network built by New with SoftMax enabled
InitSoftMax ==
    /\ \E c \in SoftMaxConfigs : n \in New(c)
    /\ td = NewTrainingData(0, [num |-> 1, den |-> 1], FInt(0))
    /\ pc = "idle"
    /\ i = 0
    /\ row = Nil
    /\ errSum = FInt(0)
    /\ errorWithinTolerence = TRUE
    /\ testCount = 0
    /\ ret = NoRet
    /\ returned = <<>>
    /\ log = <<>>
    /\ last = [op |-> "New", arg |-> <<>>, err |-> NoErr, out |-> <<>>, n |-> n, td |-> td]
    /\ errs = <<>>
    /\ n0 = n
    /\ trains = 0
    /\ calc = NoCalc
    /\ doc = [body |-> NoBody, n |-> n]
    /\ m = NewMatrix(0, 0)
    /\ tgt = NewMatrix(0, 0)
    /\ res = NoRes

NextSoftMax ==
    \/ PredictUntrained
    \/ CallFeedForward

SpecSoftMax == InitSoftMax /\ [][NextSoftMax]_vars

\* ---------------------------------------------------------------- properties of export and import
\* C11: after New and any sequence of Train, Predict, MarshalJSON and UnmarshalJSON the
\* Network has one weight matrix and one bias matrix per layer after the first, and one value
\* matrix per layer.
C11_LayerCounts ==
    /\ Len(n.weightMatrices) = Len(n.topology) - 1
    /\ Len(n.biasMatrices) = Len(n.topology) - 1
    /\ Len(n.valueMatrices) = Len(n.topology)

\* ---------------------------------------------------------------- properties
\* k is x rounded to the nearest integer, halves away from zero, for x = len * s >= 0
IsNearest(k, len, s) ==
    /\ 2 * s.den * k - s.den <= 2 * len * s.num
    /\ 2 * len * s.num < 2 * s.den * k + s.den

\* number of positions of the sequence q that hold x
Count(q, x) == Cardinality({p \in 1..Len(q) : q[p] = x})

\* C1: after Prepare the c-th NextRow call returns trainingData[(c-1) mod (trainCount+1)],
\* or nil when that remainder is trainCount (the end of an epoch), and the cursor is the
\* number of calls mod (trainCount+1): every epoch yields the trainCount rows in order,
\* then nil once with the cursor back at 0; with trainCount = 0 every call returns nil.
C1_NextRowCycle ==
    LET trainCount == Len(td.trainingData)
    IN  /\ \A c \in 1..Len(returned) :
              returned[c] = (IF (c - 1) % (trainCount + 1) = trainCount
                             THEN Nil
                             ELSE td.trainingData[((c - 1) % (trainCount + 1)) + 1])
        /\ td.position = Len(returned) % (trainCount + 1)

\* two full epochs over two training rows have been returned
C1_Witness ==
    /\ Len(td.trainingData) = 2
    /\ Len(returned) = 6
    /\ returned[1] # returned[2]
    /\ returned[3] = Nil
    /\ returned[6] = Nil
    /\ td.position = 0

\* C2: right after Prepare, len(trainingData) is len(Data)*Split rounded to the nearest
\* integer, len(testingData) is the rest, both lie in [0, len(Data)], every index of Data
\* occurs exactly once in the two partitions together (so they hold the same rows as Data,
\* as multisets), Data is what it was and the position is 0; 20 rows at Split 0.8 give 16
\* and 4.
C2_PrepareSplits ==
    last.op = "Prepare" =>
        LET len   == Len(td.Data)
            all   == td.trainingData \o td.testingData
            rowOf == [p \in 1..Len(all) |-> td.Data[all[p]]]
        IN  /\ IsNearest(Len(td.trainingData), len, td.Split)
            /\ Len(td.testingData) = len - Len(td.trainingData)
            /\ Len(td.trainingData) \in 0..len
            /\ Len(td.testingData) \in 0..len
            /\ \A p \in 1..Len(all) : all[p] \in 1..len
            /\ \A idx \in 1..len : Count(all, idx) = 1
            /\ \A p \in 1..len : Count(rowOf, td.Data[p]) = Count(td.Data, td.Data[p])
            /\ td.Data = last.td.Data
            /\ td.position = 0
            /\ Round(20, [num |-> 4, den |-> 5]) = 16
            /\ 20 - Round(20, [num |-> 4, den |-> 5]) = 4

\* Prepare has split two rows into one training and one test row, in shuffled order
C2_Witness ==
    /\ last.op = "Prepare"
    /\ Len(td.Data) = 2
    /\ td.trainingData = <<2>>
    /\ td.testingData = <<1>>
    /\ last.td.position = 1

\* the calls of one epoch of Train over the partitions of d, in order
RECURSIVE TrainEvents(_, _)
TrainEvents(rows, p) ==
    IF p > Len(rows) THEN <<>>
    ELSE <<Event("NextRow", rows[p]), Event("feedForward", rows[p]),
           Event("backPropagate", rows[p])>> \o TrainEvents(rows, p + 1)

EpochEvents(d) ==
    TrainEvents(d.trainingData, 1)
        \o <<Event("NextRow", Nil)>>
        \o [p \in 1..Len(d.testingData) |-> Event("Predict", d.testingData[p])]

\* C3: the calls Train makes are Prepare, once and first, and then epoch after epoch the
\* same sequence: for each training row in partition order NextRow (returning it),
\* feedForward on it, backPropagate on it; then the NextRow that returns nil; then Predict on
\* each test row.  (A call that fails ends the sequence: C7.)
C3_TrainOrder ==
    trains > 0 =>
        LET E == EpochEvents(td)
        IN  /\ log[1] = Event("Prepare", Nil)
            /\ \A j \in 2..Len(log) : log[j] = E[((j - 2) % Len(E)) + 1]
            /\ pc = "feedForward" => log[Len(log)] = Event("NextRow", row) /\ row # Nil
            /\ pc = "backPropagate" => log[Len(log)] = Event("feedForward", row)
            /\ (pc = "evaluate" /\ testCount = 0) => log[Len(log)] = Event("NextRow", Nil)

\* Train has run two full epochs over one training row and one test row
C3_Witness ==
    /\ pc = "done"
    /\ ret.err = NoErr
    /\ i = 2
    /\ Len(td.trainingData) = 1
    /\ Len(td.testingData) = 1
    /\ Len(log) = 11

RECURSIVE FSum(_, _)
FSum(q, p) == IF p > Len(q) THEN FInt(0) ELSE FAdd(q[p], FSum(q, p + 1))

Mean(q) == FDivInt(FSum(q, 1), Len(q))

\* every error of q is within t and so is their mean
WithinTolerance(q, t) ==
    /\ \A p \in 1..Len(q) : FLessEq(q[p], t)
    /\ FLessEq(Mean(q), t)

\* C4: a Train call that returned without failure stopped before its loop index reached
\* Iterations exactly when every test row's error and the mean test error of its last
\* evaluation were <= TargetError; and an epoch after the first is run only when the
\* evaluation before it was not within tolerance.
C4_EarlyStop ==
    /\ (pc = "done" /\ ret.err = NoErr) =>
          ((i < td.Iterations) <=> WithinTolerance(errs, td.TargetError))
    /\ (pc \in {"nextRow", "feedForward", "backPropagate"} /\ i > 0) =>
          ~WithinTolerance(errs, td.TargetError)

\* Train stopped after the first of two epochs, on an evaluation of two test rows
C4_Witness ==
    /\ pc = "done"
    /\ ret.err = NoErr
    /\ i = 0
    /\ td.Iterations = 2
    /\ Len(errs) = 2

\* C5: a Train call in which no feedForward and no backPropagate call failed is still
\* running, or has returned a nil error after at most Iterations epochs, converged
\* (i < Iterations) or exhausted (i = Iterations): it never ends in any other way.
C5_TrainEnds ==
    (trains > 0 /\ ret.err = NoErr) =>
        \/ pc \in {"nextRow", "feedForward", "backPropagate", "evaluate"}
        \/ pc = "done" /\ i <= td.Iterations

\* every row of d has an input of topology[0] and an output of topology[last] components
WellFormed(net, d) ==
    \A p \in 1..Len(d.Data) :
        /\ Len(d.Data[p].Input) = net.topology[1]
        /\ Len(d.Data[p].Ouput) = net.topology[Last(net)]

\* the errors of net's predictions for the test rows of d, from the p-th on
RECURSIVE TestErrors(_, _, _)
TestErrors(net, d, p) ==
    IF p > Len(d.testingData) THEN <<>>
    ELSE LET r == d.Data[d.testingData[p]]
         IN  <<Calculate(net.errFunc, r.Ouput, Predict(net, r.Input).out).v>>
                 \o TestErrors(net, d, p + 1)

MeanTestError(net, d) == Mean(TestErrors(net, d, 1))

\* C6: when Train has returned without failure (on rows of the right sizes, with a test
\* partition that is not empty), the value returned is the mean over the test rows of the
\* error of the prediction the Network makes for the row with its weights as they are.
C6_ReturnsMean ==
    (pc = "done" /\ ret.err = NoErr /\ WellFormed(n, td) /\ Len(td.testingData) > 0) =>
        ret.v = MeanTestError(n, td)

\* q repeated k times
RECURSIVE Repeat(_, _)
Repeat(q, k) == IF k <= 0 THEN <<>> ELSE q \o Repeat(q, k - 1)

\* net after feedForward and backPropagate on the rows of d listed in rows, from p on
RECURSIVE Replay(_, _, _, _)
Replay(net, d, rows, p) ==
    IF p > Len(rows) THEN net
    ELSE Replay(backPropagate(feedForward(net, d.Data[rows[p]].Input).n,
                              d.Data[rows[p]].Ouput).n,
                d, rows, p + 1)

\* C7: a feedForward or backPropagate call of Train that fails makes Train return at once,
\* with 0 and the call's error wrapped as a training failure; and when Train has returned a
\* training failure, the failing call on the row NextRow last returned is the last call it
\* made, that row was fetched once per epoch begun (no retry), and the weights and biases
\* are those that the rows before the failing one produce from the weights Train started
\* with.
C7_FailureStops ==
    /\ (last.op \in {"feedForward", "backPropagate"} /\ last.err # NoErr) =>
          /\ pc = "done"
          /\ ret.ctx = "training error"
          /\ ret.err = "training error: " \o last.err
    /\ (pc = "done" /\ ret.ctx = "training error") =>
        LET failing == td.trainingData[td.position]
            before  == Repeat(td.trainingData, i) \o SubSeq(td.trainingData, 1, td.position - 1)
            replay  == Replay(n0, td, before, 1)
        IN  /\ ret.err # NoErr
            /\ ret.v = FInt(0)
            /\ row = failing
            /\ log[Len(log)].op \in {"feedForward", "backPropagate"}
            /\ log[Len(log)].row = failing
            /\ Count(log, Event("NextRow", failing)) = i + 1
            /\ n.weightMatrices = replay.weightMatrices
            /\ n.biasMatrices = replay.biasMatrices

\* Train failed on its second row after the first row had changed the weights
C7_Witness ==
    /\ pc = "done"
    /\ ret.ctx = "training error"
    /\ td.position = 2
    /\ n.weightMatrices # n0.weightMatrices
    /\ n.biasMatrices # n0.biasMatrices

\* the activation feedForward applies to layer l (1-based) of net
LayerActivation(net, l) == IF l < Len(net.weightMatrices) THEN net.activation ELSE net.output

\* C8: a Predict call changes nothing of the Network but valueMatrices; on success the cache
\* is the one a single forward pass over the input leaves (the input in layer 0, each next
\* layer the activation of values*weights+bias) and the slice returned is the cached output
\* layer; on failure nothing is returned.
C8_PredictFrame ==
    last.op = "Predict" =>
        /\ n = [last.n EXCEPT !.valueMatrices = n.valueMatrices]
        /\ last.err = NoErr =>
              /\ n.valueMatrices[1].values = last.arg
              /\ \A l \in 1..Len(n.weightMatrices) :
                    n.valueMatrices[l + 1] =
                        ApplyF(Add(Multiply(n.valueMatrices[l], n.weightMatrices[l]).m,
                                   n.biasMatrices[l]).m,
                               LayerActivation(n, l))
              /\ last.out = n.valueMatrices[Len(n.valueMatrices)].values
        /\ last.err # NoErr => last.out = <<>>

\* a trained Network has predicted, overwriting its value cache
C8_Witness ==
    /\ last.op = "Predict"
    /\ pc = "done"
    /\ last.err = NoErr
    /\ n.weightMatrices # n0.weightMatrices
    /\ n.valueMatrices # last.n.valueMatrices
    /\ ~last.n.valueMatrices[1].nil

\* C9: a feedForward call (made by Train or through Predict) with len(input) # topology[0]
\* fails with the size error and leaves the whole Network, value cache included, as it was;
\* with len(input) = topology[0] it succeeds and valueMatrices[0] is the input as a
\* one-row matrix.
C9_FeedForwardSize ==
    last.op \in {"feedForward", "Predict"} =>
        IF Len(last.arg) # last.n.topology[1]
        THEN /\ last.err = (IF last.op = "Predict" THEN "prediction error: incorrect input size"
                            ELSE "incorrect input size")
             /\ n = last.n
        ELSE /\ last.err = NoErr
             /\ n.valueMatrices[1] =
                   [cols |-> Len(last.arg), rows |-> 1, values |-> last.arg, nil |-> FALSE]

\* feedForward has rejected an input on a Network whose cache was filled
C9_Witness ==
    /\ last.op = "feedForward"
    /\ Len(last.arg) # n.topology[1]
    /\ last.err = "incorrect input size"
    /\ ~n.valueMatrices[Len(n.valueMatrices)].nil

\* C10: a backPropagate call with a target whose length is not topology[last] fails with the
\* size error and leaves every weight and bias matrix as it was.
C10_BackPropagateSize ==
    (last.op = "backPropagate" /\ Len(last.arg) # last.n.topology[Last(last.n)]) =>
        /\ last.err = "output is incorrect size"
        /\ n.weightMatrices = last.n.weightMatrices
        /\ n.biasMatrices = last.n.biasMatrices

\* backPropagate has rejected a target on a Network an earlier row had trained
C10_Witness ==
    /\ last.op = "backPropagate"
    /\ Len(last.arg) # n.topology[Last(n)]
    /\ last.err = "output is incorrect size"
    /\ n.weightMatrices # n0.weightMatrices


\* C12: export then import is a round trip: the Network that imports the document another
\* one exported has the exporter's topology, weight and bias matrices, learning rate and
\* activation, output and error selectors, and Predict answers every input as the exporter
\* does.
C12_RoundTrip ==
    (last.op = "UnmarshalJSON" /\ doc.body.ok /\ last.arg = doc.body) =>
        /\ last.err = NoErr
        /\ n.topology = doc.n.topology
        /\ n.weightMatrices = doc.n.weightMatrices
        /\ n.biasMatrices = doc.n.biasMatrices
        /\ n.learningRate = doc.n.learningRate
        /\ n.activation = doc.n.activation
        /\ n.output = doc.n.output
        /\ n.errFunc = doc.n.errFunc
        /\ Built(doc.n) =>
              \A input \in Inputs :
                  /\ Predict(n, input).out = Predict(doc.n, input).out
                  /\ Predict(n, input).err = Predict(doc.n, input).err

\* a trained Network was exported, and a Network holding other weights imported the document
C12_Witness ==
    /\ last.op = "UnmarshalJSON"
    /\ doc.body.ok
    /\ last.arg = doc.body
    /\ trains = 1
    /\ pc = "done"
    /\ doc.n.weightMatrices # n0.weightMatrices
    /\ last.n.weightMatrices # doc.n.weightMatrices
    /\ n.weightMatrices = doc.n.weightMatrices

\* the matrices an import installed
Installed(net) ==
    {net.weightMatrices[l] : l \in 1..Len(net.weightMatrices)}
        \cup {net.biasMatrices[l] : l \in 1..Len(net.biasMatrices)}

\* C13: the import of a document whose activation, output or error selector id is unknown
\* fails with a deserialization error; a successful import never leaves a selector that
\* resolves to no function.
C13_UnknownSelector ==
    last.op = "UnmarshalJSON" =>
        /\ (/\ last.arg.ok
            /\ \/ getActivationFunctions(Field(last.arg.fields, "a", 0)) = "nil"
               \/ getActivationFunctions(Field(last.arg.fields, "o", 0)) = "nil"
               \/ getErrorFunction(Field(last.arg.fields, "e", 0)) = "nil")
              => last.err # NoErr
        /\ last.err = NoErr =>
              /\ n.solver # "nil"
              /\ n.outputSolver # "nil"
              /\ n.errorSolver # "nil"

\* C14: the import of a document with a matrix record whose "v" has not c*r elements, or
\* that lacks "c", "r" or "v", fails; an import never installs a Matrix whose values are
\* not cols*rows many.
C14_MatrixRecords ==
    last.op = "UnmarshalJSON" =>
        /\ (/\ last.arg.ok
            /\ \E key \in {"w", "b"} :
                  \E rec \in {Field(last.arg.fields, key, <<>>)[l] :
                                 l \in 1..Len(Field(last.arg.fields, key, <<>>))} :
                      \/ {"c", "r", "v"} \ DOMAIN rec # {}
                      \/ Len(Field(rec, "v", <<>>)) # Field(rec, "c", 0) * Field(rec, "r", 0))
              => last.err # NoErr
        /\ last.err = NoErr =>
              \A mx \in Installed(n) : Len(mx.values) = mx.cols * mx.rows

\* ---------------------------------------------------------------- properties of the Matrix
\* len = cols * rows on the integers, stated without forming the product
ProductIs(len, cols, rows) ==
    IF cols = 0 THEN len = 0 ELSE len % cols = 0 /\ len \div cols = rows

Shaped(mx) == ProductIs(Len(mx.values), mx.cols, mx.rows)

\* the coordinates among Coords that lie inside mx
Inside(mx) == {c \in Coords \X Coords : c[1] < mx.cols /\ c[2] < mx.rows}

\* C15: for every pair of uint32 dimensions NewMatrix builds a Matrix with cols*rows values
\* (the product on the integers) in which the cells (col, row) have distinct indices
\* row*cols+col inside the slice; NewMatrixFromSlice, SetValues, Set and the arithmetic
\* operations keep that.
C15_Layout ==
    /\ res.op = "NewMatrix" =>
          /\ Shaped(res.out)
          /\ \A c \in Inside(res.out) :
                AddU32(MulU32(c[2], res.out.cols), c[1]) < Len(res.out.values)
          /\ \A c \in Inside(res.out), d \in Inside(res.out) :
                c # d => AddU32(MulU32(c[2], res.out.cols), c[1])
                             # AddU32(MulU32(d[2], res.out.cols), d[1])
    /\ res.op = "NewMatrixFromSlice" => Shaped(res.out)
    /\ (res.op \in {"Set", "SetValues"} /\ Shaped(res.m)) => Shaped(m)
    /\ (res.op \in Arithmetic /\ Shaped(res.m) /\ Shaped(res.tgt) /\ res.err = NoErr)
          => Shaped(res.out)

OutOfRange == {"column out of range", "row out of range"}

\* C16: At and Set fail with an out-of-range error exactly when col >= cols or row >= rows,
\* and succeed otherwise; a failed Set changes nothing; a successful Set changes only the
\* cell at index row*cols+col, and an At of that cell then returns the value set.
C16_AtSet ==
    /\ res.op \in {"At", "Set"} =>
          LET col == res.arg[1]
              r   == res.arg[2]
          IN  /\ res.err \in OutOfRange <=> (col >= res.m.cols \/ r >= res.m.rows)
              /\ res.err \notin OutOfRange => res.err = NoErr
    /\ res.op = "At" => m = res.m
    /\ (res.op = "Set" /\ res.err # NoErr) => m = res.m
    /\ (res.op = "Set" /\ res.err = NoErr) =>
          /\ m = [res.m EXCEPT !.values[res.arg[2] * res.m.cols + res.arg[1] + 1] = res.arg[3]]
          /\ At(m, res.arg[1], res.arg[2]) = [v |-> res.arg[3], err |-> NoErr]

\* f[lo] + ... + f[hi]
RECURSIVE Sigma(_, _, _)
Sigma(f, lo, hi) == IF lo > hi THEN 0 ELSE f[hi] + Sigma(f, lo, hi - 1)

\* C17: when A.cols = B.rows, A.Multiply(B) succeeds with a Matrix of B.cols columns and
\* A.rows rows whose cell (x, y) is the sum over k of A.At(k, y) * B.At(x, k).
C17_Multiply ==
    (res.op = "Multiply" /\ res.m.cols = res.tgt.rows) =>
        /\ res.err = NoErr
        /\ res.out.cols = res.tgt.cols
        /\ res.out.rows = res.m.rows
        /\ \A c \in Cells(res.out) :
              At(res.out, c[1], c[2]) =
                  [v   |-> Sigma([k \in 0..(res.m.cols - 1) |->
                                     At(res.m, k, c[2]).v * At(res.tgt, c[1], k).v],
                                 0, res.m.cols - 1),
                   err |-> NoErr]

\* C18: Add and MultiplyElements fail with a shape error exactly when the operands' shapes
\* differ, Multiply exactly when A.cols # B.rows; a failed call returns no Matrix and leaves
\* both operands as they were.
C18_ShapeErrors ==
    /\ res.op \in {"Add", "MultiplyElements"} =>
          (res.err = "shape error"
              <=> (res.m.cols # res.tgt.cols \/ res.m.rows # res.tgt.rows))
    /\ res.op = "Multiply" => (res.err = "shape error" <=> res.m.cols # res.tgt.rows)
    /\ (res.op \in {"Add", "MultiplyElements", "Multiply"} /\ res.err # NoErr) =>
          /\ res.out = NilMatrix
          /\ m = res.m
          /\ tgt = res.tgt

\* operands of two cells each, one of them written by Set, were refused for their shapes
C18_Witness ==
    /\ res.op \in {"Add", "Multiply"}
    /\ res.err = "shape error"
    /\ Len(res.m.values) = MaxCells
    /\ Len(res.tgt.values) = MaxCells
    /\ \E p \in 1..MaxCells : res.m.values[p] # 0
    /\ res.out = NilMatrix
    /\ m = res.m
    /\ tgt = res.tgt

\* same shape and same cells
SameCells(a, b) ==
    /\ a.cols = b.cols
    /\ a.rows = b.rows
    /\ \A c \in Cells(a) : At(a, c[1], c[2]) = At(b, c[1], c[2])

\* C19: A.Transpose() has A.rows columns and A.cols rows, its cell (x, y) is A's cell
\* (y, x), and the transpose of the transpose equals A.
C19_Transpose ==
    res.op = "Transpose" =>
        /\ res.err = NoErr
        /\ res.out.cols = res.m.rows
        /\ res.out.rows = res.m.cols
        /\ \A c \in Cells(res.out) :
              /\ At(res.out, c[1], c[2]).err = NoErr
              /\ At(res.out, c[1], c[2]) = At(res.m, c[2], c[1])
        /\ ~TransposePanics(res.out)
        /\ SameCells(Transpose(res.out), res.m)

\* the operations called on a receiver
Methods == Arithmetic \cup {"At", "Set", "SetValues", "UnmarshalJSON"}

\* C20 as stated, of the operations of matrix.go 137-439: none changes its argument, and
\* none but Set changes its receiver; the arithmetic operations return a Matrix and leave
\* both operands as they were.
C20_OnlySet ==
    /\ res.op \in Methods => tgt = res.tgt
    /\ res.op \in Methods \ {"Set", "UnmarshalJSON"} => m = res.m
    /\ (res.op \in Arithmetic /\ res.err = NoErr) => ~res.out.nil

\* C20: no Matrix operation changes its argument, and none but Set, SetValues and
\* UnmarshalJSON changes its receiver; the arithmetic operations (Multiply,
\* MultiplyElements, Add, MultiplyScalar, AddScalar, Negative, Transpose, ApplyFunction)
\* return a Matrix when they succeed and leave both operands as they were.
C20_Frame ==
    /\ res.op \in Methods => tgt = res.tgt
    /\ res.op \in Methods \ {"Set", "SetValues", "UnmarshalJSON"} => m = res.m
    /\ (res.op \in Arithmetic /\ res.err = NoErr) => ~res.out.nil

\* a SetValues replaced the cells of its receiver
C20_Witness ==
    /\ res.op = "SetValues"
    /\ res.err = NoErr
    /\ Len(res.arg) = MaxCells
    /\ m # res.m
    /\ m.values = res.arg
    /\ tgt = res.tgt

\* ---------------------------------------------------------------- properties of the layers
\* the weight layers of net, 1-based: layer l maps valueMatrices[l] to valueMatrices[l + 1]
Layers(net) == 1..Len(net.weightMatrices)

\* tgtOut as the one-row Matrix backPropagate builds from it
TargetMatrix(tgtOut) ==
    [cols |-> Len(tgtOut), rows |-> 1, values |-> tgtOut, nil |-> FALSE]

\* the error of layer l of net for the target: target - prediction at the last layer, and
\* below it the error of layer l + 1 times the transpose of that layer's weights in net
RECURSIVE ErrorOf(_, _, _)
ErrorOf(net, tgtOut, l) ==
    IF l >= Len(net.weightMatrices)
    THEN Add(TargetMatrix(tgtOut), Negative(net.valueMatrices[Len(net.valueMatrices)])).m
    ELSE Multiply(ErrorOf(net, tgtOut, l + 1), Transpose(net.weightMatrices[l + 1])).m

\* learningRate * (error of layer l, elementwise times the derivative `d` of the layer's
\* cached output)
GradientOf(net, tgtOut, l, d) ==
    MultiplyScalar(MultiplyElements(ErrorOf(net, tgtOut, l),
                                    ApplyDf(net.valueMatrices[l + 1], d)).m,
                   net.learningRate)

\* C21: in a successful backPropagate the error handed from layer l + 1 to layer l is the
\* error of layer l + 1 times the transpose of weightMatrices[l + 1] as it was before the
\* call: the update of layer l (seen in its bias, which moves by the layer's gradient) is
\* the one the pre-update weights of the layer above give.
C21_PreUpdateWeights ==
    (last.op = "backPropagate" /\ last.err = NoErr) =>
        \A l \in Layers(n) \ {Len(n.weightMatrices)} :
            n.biasMatrices[l] =
                Add(last.n.biasMatrices[l],
                    GradientOf(last.n, last.arg, l, last.n.activation)).m

\* a backPropagate has changed the weights of the last layer and handed a non-zero error
\* to the hidden layer below it
C21_Witness ==
    /\ last.op = "backPropagate"
    /\ last.err = NoErr
    /\ Len(n.weightMatrices) = 2
    /\ n.weightMatrices[2] # last.n.weightMatrices[2]
    /\ n.biasMatrices[1] # last.n.biasMatrices[1]
    /\ Multiply(ErrorOf(last.n, last.arg, 2), Transpose(n.weightMatrices[2])).m
          # ErrorOf(last.n, last.arg, 1)

\* C22: a successful backPropagate(target) takes target - cached prediction as the output
\* error and, for every layer l, with gradient = learningRate * (error of l elementwise
\* times the derivative of the cached valueMatrices[l + 1]), leaves weightMatrices[l] = the
\* old one + transpose(valueMatrices[l]) * gradient and biasMatrices[l] = the old one +
\* gradient; cell by cell at the output layer, the bias moves by
\* learningRate * (target - prediction) * derivative(prediction).  (The derivative is the
\* one of the solver backPropagate applies, n.solver; which function's it is to be: C27.)
C22_AdditiveUpdate ==
    (last.op = "backPropagate" /\ last.err = NoErr) =>
        /\ \A l \in Layers(n) :
              LET gradient == GradientOf(last.n, last.arg, l, last.n.activation)
              IN  /\ n.weightMatrices[l] =
                         Add(last.n.weightMatrices[l],
                             Multiply(Transpose(last.n.valueMatrices[l]), gradient).m).m
                  /\ n.biasMatrices[l] = Add(last.n.biasMatrices[l], gradient).m
        /\ LET k          == Len(n.weightMatrices)
               prediction == getPrediction(last.n)
           IN  \A x \in 1..Len(last.arg) :
                   n.biasMatrices[k].values[x] =
                       last.n.biasMatrices[k].values[x]
                           + last.n.learningRate * (last.arg[x] - prediction[x])
                               * Df(last.n.activation, prediction[x])

\* a backPropagate on a target below the prediction has moved the weights and the bias of
\* both layers
C22_Witness ==
    /\ last.op = "backPropagate"
    /\ last.err = NoErr
    /\ Len(n.weightMatrices) = 2
    /\ last.arg[1] < getPrediction(last.n)[1]
    /\ \A l \in Layers(n) :
          /\ n.weightMatrices[l] # last.n.weightMatrices[l]
          /\ n.biasMatrices[l] # last.n.biasMatrices[l]
    /\ n.biasMatrices[2].values[1] < last.n.biasMatrices[2].values[1]

\* C23: on a Network built by New, whatever feedForward and backPropagate calls have been
\* made, weightMatrices[l] has topology[l + 1] columns and topology[l] rows, biasMatrices[l]
\* has topology[l + 1] columns and one row, every cached valueMatrices[l] has topology[l]
\* cells, and no call has failed with a shape error: a call fails on the size of its
\* argument or not at all.
C23_Shapes ==
    /\ \A l \in Layers(n) :
          /\ n.weightMatrices[l].cols = n.topology[l + 1]
          /\ n.weightMatrices[l].rows = n.topology[l]
          /\ Len(n.weightMatrices[l].values) = n.topology[l + 1] * n.topology[l]
          /\ n.biasMatrices[l].cols = n.topology[l + 1]
          /\ n.biasMatrices[l].rows = 1
          /\ Len(n.biasMatrices[l].values) = n.topology[l + 1]
    /\ \A l \in 1..Len(n.topology) :
          ~n.valueMatrices[l].nil => Len(n.valueMatrices[l].values) = n.topology[l]
    /\ last.op = "feedForward" => last.err \in {NoErr, "incorrect input size"}
    /\ last.op = "backPropagate" => last.err \in {NoErr, "output is incorrect size"}

\* a second backPropagate has succeeded on a Network with a hidden layer of two cells whose
\* weights the first one had changed
C23_Witness ==
    /\ n.topology = <<1, 2, 1>>
    /\ Len(log) = MaxPasses
    /\ log[2].op = "backPropagate"
    /\ last.op = "backPropagate"
    /\ last.err = NoErr
    /\ last.n.weightMatrices # n0.weightMatrices
    /\ n.weightMatrices # last.n.weightMatrices
    /\ \A l \in 1..Len(n.topology) : ~n.valueMatrices[l].nil

\* ---------------------------------------------------------------- properties of the evaluation
\* the test row Train evaluated last
Evaluated == td.Data[TestData(td)[testCount]]

\* Train has just called the error function on a test row's prediction
JustEvaluated ==
    /\ pc \in {"evaluate", "panic"}
    /\ testCount > 0
    /\ last.op = "Predict"
    /\ last.err = NoErr

\* C24: when Train evaluates a test row, the error function receives the prediction as vs
\* (its "predicted values" parameter) and the row's expected output as tgts (its "target
\* values" parameter).
C24_ArgumentOrder ==
    JustEvaluated =>
        /\ calc.called
        /\ calc.vs = last.out
        /\ calc.tgts = Evaluated.Ouput

\* ---------------------------------------------------------------- properties of softMax
\* exp(raw[1]) + ... + exp(raw[Len(raw)]), as a sum of powers of e
SumExp(raw) ==
    [k \in {raw[j] : j \in 1..Len(raw)} |-> Cardinality({j \in 1..Len(raw) : raw[j] = k})]

\* the output layer's post-activation vector of the feedForward that `last` records
Raw == feedForward([last.n EXCEPT !.sm = FALSE], last.arg).n.valueMatrices[Len(n.topology)].values

\* C25: with softmax enabled, after a successful feedForward the cached output value j is
\* exp(raw[j]) divided by the sum of the exp(raw[k]), raw being the output layer's
\* post-activation vector (the cached values then lie in [0,1] and sum to 1).
C25_SoftMax ==
    (last.op \in {"feedForward", "Predict"} /\ last.err = NoErr /\ n.sm) =>
        LET cached == n.valueMatrices[Len(n.topology)].values
        IN  /\ Len(cached) = Len(Raw)
            /\ \A j \in 1..Len(cached) :
                  /\ cached[j].exp = Raw[j]
                  /\ cached[j].over = SumExp(Raw)

\* the rows of a partition
Rows(part) == {part[p] : p \in 1..Len(part)}

\* a step of a running Train call
C26_Step ==
    /\ (n'.weightMatrices # n.weightMatrices \/ n'.biasMatrices # n.biasMatrices) =>
          /\ pc = "backPropagate"
          /\ row \in Rows(td.trainingData)
          /\ row \notin Rows(TestData(td))
    /\ pc \in {"feedForward", "backPropagate"} => row \notin Rows(TestData(td))
    /\ \A j \in 1..Len(log') :
          log'[j].row \in Rows(TestData(td')) => log'[j].op = "Predict"
    /\ pc # "idle" =>
          /\ TestData(td') = TestData(td)
          /\ td'.Data = td.Data
    /\ pc = "evaluate" =>
          /\ n'.weightMatrices = n.weightMatrices
          /\ n'.biasMatrices = n.biasMatrices

\* C26: during Train the weights and biases change only in backPropagate calls on rows of
\* the train partition; a row of the test partition is only ever passed to Predict; no
\* step of an epoch changes the test partition or the rows; and no step of an epoch's test
\* evaluation changes a weight or a bias.
C26_TestReadOnly == [][C26_Step]_vars

\* Train has returned from an epoch that changed the weights on a training row and then
\* evaluated a test row with the weights it ended the epoch with
C26_Witness ==
    /\ pc = "done"
    /\ ret.err = NoErr
    /\ Len(td.trainingData) = 1
    /\ Len(td.testingData) = 1
    /\ Len(errs) = 1
    /\ calc.called
    /\ n.weightMatrices # n0.weightMatrices
    /\ last.op = "Predict"
    /\ last.n.weightMatrices = n.weightMatrices
    /\ last.n.biasMatrices = n.biasMatrices
    /\ last.n.valueMatrices # n.valueMatrices

\* C27: in a successful backPropagate the gradient of every layer is taken with the
\* derivative of the activation feedForward applied to produce that layer's cached output,
\* the hidden activation's below the output layer and the output activation's at it: each
\* layer's bias moves by learningRate * (error elementwise times that derivative of the
\* cached output).
C27_MatchingDerivative ==
    (last.op = "backPropagate" /\ last.err = NoErr) =>
        \A l \in Layers(n) :
            n.biasMatrices[l] =
                Add(last.n.biasMatrices[l],
                    GradientOf(last.n, last.arg, l, LayerActivation(last.n, l))).m

\* some row of the dataset has an output that is not topology[last] long
WrongOutput ==
    \E p \in 1..Len(td.Data) : Len(td.Data[p].Ouput) # n.topology[Last(n)]

\* C28: a Train call of at least one epoch on a dataset with a row whose output is not
\* topology[last] long, whichever partition holds the row, does not abort the process and
\* never hands the error function two vectors of different lengths; when it returns, it
\* returns a failure.
C28_WrongOutputLength ==
    (trains > 0 /\ td.Iterations > 0 /\ WrongOutput) =>
        /\ pc # "panic"
        /\ calc.called => Len(calc.vs) = Len(calc.tgts)
        /\ pc = "done" => ret.err # NoErr

\* C29: on a dataset that is not empty, with a Split in (0, 1], the mean test error of every
\* epoch is a sum divided by a non-zero count: errSum, the value Train compares with
\* TargetError, and the value Train returns are numbers (neither NaN nor infinite).
C29_MeanDefined ==
    (Len(td.Data) > 0 /\ td.Split.num > 0 /\ td.Split.num <= td.Split.den) =>
        /\ IsFinite(errSum)
        /\ pc = "done" => IsFinite(ret.v)

\* C30: whenever Train has returned, with or without a failure, the cursor of the
\* TrainingData is 0, and the next NextRow call returns the first row of the train
\* partition (nil when the partition is empty).
C30_CursorReset ==
    (trains > 0 /\ pc = "done") =>
        /\ td.position = 0
        /\ NextRow(td).row =
              (IF Len(td.trainingData) = 0 THEN Nil ELSE td.trainingData[1])
====
